---------------------------- MODULE Spec2Model ----------------------------
(***************************************************************************)
(* A model of the gRPC call runtime of gRPCpeek                            *)
(* (src/grpcpeek/src-tauri/src/main.rs).                                   *)
(*                                                                         *)
(* The specifications of this module:                                      *)
(*   Spec        the stream registry ACTIVE_CLIENT_STREAMS with the three  *)
(*               commands start_client_stream, send_stream_message and     *)
(*               finish_streaming, the background task spawned for every   *)
(*               stream and its sender_task;                               *)
(*   FairSpec    Spec with the fairness the runtime and the mutex give     *)
(*               the command handlers;                                     *)
(*   DecoderSpec the loop that cuts a response body stream into gRPC       *)
(*               frames and emits grpc-stream-message events;              *)
(*   CodecSpec   the buffered frame reader read_grpc_frames and the        *)
(*               framing done by send_stream_message;                      *)
(*   CallSpec    one call of call_grpc_method from the transport set-up    *)
(*               to the envelope or the error it returns;                  *)
(*   StreamSpec  one stream from start_client_stream to finish_streaming   *)
(*               with the response handling of its background task;        *)
(*   HeaderSpec  the assembly of the request headers from the auth         *)
(*               configuration and the metadata of a command;              *)
(*   PathSpec    the lookup of the service and the method a command names  *)
(*               and the path of its request;                              *)
(*   SampleSpec  the synthesis of a sample request for a message type, by  *)
(*               generate_sample_request and by enrich_with_samples        *)
(*               (src/grpcpeek/src-tauri/src/proto_parser.rs);             *)
(*   SurfaceSpec the two regex parsers of proto text, parse_proto_file and *)
(*               extract_services;                                         *)
(*   FilesSpec   parse_proto_files and compile_proto_from_paths over a     *)
(*               file system: the discovery of the proto files, the        *)
(*               command line of protoc and the result;                    *)
(*   TlsSpec     the connector call_grpc_method and start_client_stream    *)
(*               build from a TlsConfig;                                   *)
(*   TaskFairSpec  FairSpec with the tasks of the streams scheduled        *)
(*               fairly.                                                   *)
(***************************************************************************)
EXTENDS Integers, Sequences, FiniteSets, TLC

\* ------------------------------------------------------------------------
\* Bounds of the model
\* ------------------------------------------------------------------------

\* number of commands (start_client_stream, send_stream_message,
\* finish_streaming) the host invokes in one behaviour
MaxOps == 3

\* frames a server sends on one response stream
MaxFrames == 3

\* bytes of one payload
MaxPayload == 1

\* bytes of one chunk of a response body
MaxChunk == 18

\* payloads framed into one buffer for read_grpc_frames
MaxBuffered == 2

\* arbitrary bytes that follow the frames of a buffer
MaxTail == 6

\* frames the server sends in answer to one call of call_grpc_method
MaxSent == 2

\* words of the error string of a failed request
MaxWords == 2

\* entries of the metadata a command is given
MaxMeta == 2

\* services of a descriptor pool
MaxServices == 2

\* fields of a message
MaxFields == 2

\* services a proto source declares
MaxDeclared == 2

\* rpcs a service declares
MaxRpcs == 2

\* calls of generate_default_value_for_field the stack of a thread holds
MaxStack == 6

\* import roots passed to parse_proto_files or compile_proto_from_paths
MaxRoots == 2

\* MAX_SAMPLE_DEPTH of proto_parser.rs
MAX_SAMPLE_DEPTH == 4

\* tab ids the host passes as tab_id
Tabs == {"t1", "t2"}

\* concurrently running command invocations (tauri runs async commands on a
\* multi-threaded runtime)
Callers == {"c1", "c2"}

NoCaller == "none"

\* every command may open a stream
Streams == 1 .. MaxOps

VARIABLES
    \* --- the registry and its mutex -------------------------------------
    ACTIVE_CLIENT_STREAMS, \* tab id -> stream held by the entry, 0: no entry
    lock,                  \* the caller holding the MutexGuard, or NoCaller
    \* --- one command invocation per caller ------------------------------
    pc,                    \* where the invocation stands
    ctab,                  \* its tab_id argument
    cmsg,                  \* its message_id argument (send), else 0
    cstream,               \* the stream whose sender clone / receiver it holds
    ret,                   \* the command that returned in the last step
    \* --- one stream per start_client_stream call -------------------------
    nextStream,            \* streams opened so far + 1
    nextMsg,               \* sends started so far + 1
    ops,                   \* commands invoked so far
    stream,                \* where the ActiveClientStream value of s is
    task,                  \* position of the spawned background task
    sender_task,           \* "none", "run", "closed" (queue closed), "broke"
    message_rx,            \* frames queued in the unbounded channel
    body,                  \* frames written to the request body
    pushed,                \* history: frames in the order their push completed
    result,                \* the result the task computed, "none" before
    \* --- streaming body decoder (DecoderSpec) ----------------------------
    d_pc,                  \* "off", "read", "done" (loop left), "failed" (Err)
    is_bidirectional,      \* the loop of start_client_stream, else that of
                           \* call_grpc_method
    frames_sent,           \* history: the payloads the server framed
    body_stream,           \* bytes the server has still to deliver
    buffer,                \* the BytesMut of the loop
    message_index,
    events,                \* the grpc-stream-message events, in emit order
    response_messages,     \* call_grpc_method only
    \* --- buffered frame codec (CodecSpec) --------------------------------
    k_pc,                  \* "off", "frame", "tail", "read"
    payloads,              \* the payloads to frame
    tail,                  \* arbitrary bytes that follow the frames
    body_bytes,            \* the buffer handed to read_grpc_frames
    framed,                \* payloads framed into body_bytes so far
    frames,                \* what read_grpc_frames returned
    \* --- one call of call_grpc_method (CallSpec) -------------------------
    call_pc,               \* "off", "setup", "request", "to_bytes" (unary),
                           \* "next" (server streaming), "returned"
    is_server_streaming,   \* method_desc.is_server_streaming()
    server,                \* history: what the transport and the server did
    grpc_status_raw,       \* Option<String>: <<>> is None, <<s>> is Some(s)
    grpc_message,
    decode_success,
    response_data,         \* Option<Value>
    call_ret,              \* the Result<String, String> of the call
    \* --- one stream from start_client_stream to finish_streaming --------
    \* --- (StreamSpec) ----------------------------------------------------
    open_pc,               \* "off", "start", "rejected", "opened" (the entry
                           \* is in the registry), "finishing", "finished"
    method_desc,           \* the kind of the method named by the command
    task_pc,               \* "none", "build", "await_resp", "next" (the
                           \* bidirectional loop), "join", "done"
    task_failure,          \* history: the step of the task that failed
    task_result,           \* the result the task sent to response_tx
    finish_result,         \* what finish_streaming returned
    \* --- the header assembly of one request (HeaderSpec) ----------------
    hdr_pc,                \* "off", "new", "auth", "metadata", "body",
                           \* "built"
    auth,                  \* Option<AuthConfig>
    metadata,              \* Option<HashMap<String, String>>
    entries,               \* the entries of meta the for loop has yet to
                           \* visit
    req_builder,           \* http::request::Builder
    req,                   \* the Result of req_builder.body(..)
    \* --- the service lookup and the path of one request (PathSpec) -----
    path_pc,               \* "off", "compiled", "first", "found",
                           \* "request", "returned"
    command,               \* "call_grpc_method" or "start_client_stream"
    descriptor_pool,       \* the services of the pool, as services()
                           \* yields them
    service,               \* the service argument of the command
    method,                \* the method argument of the command
    service_desc,          \* Option: the service the lookup found
    grpc_path,             \* Option: the path of the request
    path_ret,              \* the Err the command returned before the request
    \* --- one sample synthesis (SampleSpec) -----------------------------------
    sample_pc,             \* "off", "called", "returned", "aborted"
    operation,             \* "generate_sample_request" or "enrich_with_samples"
    message_descs,         \* the messages of the pool: name -> fields
    message_type,          \* the message type the operation names
    sample_ret,            \* what the operation made of the message type
    \* --- one run of a surface parser (SurfaceSpec) ---------------------------
    surface_pc,            \* "off", "called", "returned"
    parser,                \* "parse_proto_file" or "extract_services"
    declared,              \* history: the services the source declares
    proto_content,         \* the source, as its words, signs and white space
    parsed,                \* what the parser returned
    \* --- proto_parser.rs parse_proto_files, compile_proto_from_paths ---
    files_pc,              \* "off", "called" or "returned"
    files_cmd,             \* the function called
    import_paths,          \* its argument: the import roots
    protoc_outcome,        \* what a run of protoc would give
    proto_paths,           \* the proto files discovered
    protoc_command,        \* the arguments of protoc, None: not run
    files_ret,             \* what the function returned
    \* --- the connector of one request (TlsSpec) ------------------------------
    tls_pc,                \* "off", "called", "root_store", "client_auth",
                           \* "verifier", "built", "failed"
    tls_cmd,               \* "call_grpc_method" or "start_client_stream"
    tls_config,            \* Option<TlsConfig>
    root_store,            \* the trust anchors of the root store
    client_config,         \* the rustls ClientConfig under construction
    https_connector,       \* Option: the connector of the client
    tls_ret                \* the Err the command returned for the connector

registryVars == <<ACTIVE_CLIENT_STREAMS, lock>>
callerVars == <<pc, ctab, cmsg, cstream>>
streamVars ==
    <<nextStream, nextMsg, ops, stream, task, sender_task, message_rx, body,
      pushed, result>>
decoderVars ==
    <<d_pc, is_bidirectional, frames_sent, body_stream, buffer, message_index,
      events, response_messages>>
codecVars == <<k_pc, payloads, tail, body_bytes, framed, frames>>

callVars ==
    <<call_pc, is_server_streaming, server, grpc_status_raw, grpc_message,
      decode_success, response_data, call_ret>>

taskVars ==
    <<open_pc, method_desc, task_pc, task_failure, task_result,
      finish_result>>

headerVars == <<hdr_pc, auth, metadata, entries, req_builder, req>>

pathVars ==
    <<path_pc, command, descriptor_pool, service, method, service_desc,
      grpc_path, path_ret>>

sampleVars ==
    <<sample_pc, operation, message_descs, message_type, sample_ret>>

surfaceVars == <<surface_pc, parser, declared, proto_content, parsed>>

filesVars ==
    <<files_pc, files_cmd, import_paths, protoc_outcome, proto_paths,
      protoc_command, files_ret>>

tlsVars ==
    <<tls_pc, tls_cmd, tls_config, root_store, client_config,
      https_connector, tls_ret>>

\* the state of request set-up and of the proto tooling
setupVars ==
    <<headerVars, pathVars, sampleVars, surfaceVars, filesVars, tlsVars>>

\* the state of the call runtime
runtimeVars ==
    <<registryVars, callerVars, ret, streamVars, decoderVars, codecVars,
      callVars, taskVars>>

vars == <<runtimeVars, setupVars>>

\* what the actions of one specification of the request set-up leave alone
headerFrame ==
    <<runtimeVars, pathVars, sampleVars, surfaceVars, filesVars, tlsVars>>
pathFrame ==
    <<runtimeVars, headerVars, sampleVars, surfaceVars, filesVars, tlsVars>>
sampleFrame ==
    <<runtimeVars, headerVars, pathVars, surfaceVars, filesVars, tlsVars>>
surfaceFrame ==
    <<runtimeVars, headerVars, pathVars, sampleVars, filesVars, tlsVars>>
filesFrame ==
    <<runtimeVars, headerVars, pathVars, sampleVars, surfaceVars, tlsVars>>
tlsFrame ==
    <<runtimeVars, headerVars, pathVars, sampleVars, surfaceVars, filesVars>>

\* ------------------------------------------------------------------------
\* Sequences
\* ------------------------------------------------------------------------

IsPrefix(a, b) == Len(a) <= Len(b) /\ SubSeq(b, 1, Len(a)) = a

\* ------------------------------------------------------------------------
\* The state the other specifications leave alone
\* ------------------------------------------------------------------------

NoRet == [op |-> "none", tab |-> "t1", stream |-> 0, val |-> "none"]

RegistryIdle ==
    /\ ACTIVE_CLIENT_STREAMS = [t \in Tabs |-> 0]
    /\ lock = NoCaller
    /\ pc = [c \in Callers |-> "idle"]
    /\ ctab = [c \in Callers |-> "t1"]
    /\ cmsg = [c \in Callers |-> 0]
    /\ cstream = [c \in Callers |-> 0]
    /\ ret = NoRet
    /\ nextStream = 1
    /\ nextMsg = 1
    /\ ops = 0
    /\ stream = [s \in Streams |-> "none"]
    /\ task = [s \in Streams |-> "none"]
    /\ sender_task = [s \in Streams |-> "none"]
    /\ message_rx = [s \in Streams |-> <<>>]
    /\ body = [s \in Streams |-> <<>>]
    /\ pushed = [s \in Streams |-> <<>>]
    /\ result = [s \in Streams |-> "none"]

DecoderIdle ==
    /\ d_pc = "off"
    /\ is_bidirectional = FALSE
    /\ frames_sent = <<>>
    /\ body_stream = <<>>
    /\ buffer = <<>>
    /\ message_index = 0
    /\ events = <<>>
    /\ response_messages = <<>>

NoResult == [status |-> "none", frames |-> <<>>]

CodecIdle ==
    /\ k_pc = "off"
    /\ payloads = <<>>
    /\ tail = <<>>
    /\ body_bytes = <<>>
    /\ framed = 0
    /\ frames = NoResult

\* Option<T>
None == <<>>
Some(v) == <<v>>

\* the grpc-status and grpc-message of a header block; None: not sent
NoMetadata == [grpc_status |-> None, grpc_message |-> None]

NoServer ==
    [error |-> None, headers |-> NoMetadata, trailers |-> NoMetadata,
     sent |-> <<>>, body |-> <<>>]

NotReturned == [kind |-> "none"]

CallIdle ==
    /\ call_pc = "off"
    /\ is_server_streaming = FALSE
    /\ server = NoServer
    /\ grpc_status_raw = None
    /\ grpc_message = <<>>
    /\ decode_success = FALSE
    /\ response_data = None
    /\ call_ret = NotReturned

StreamIdle ==
    /\ open_pc = "off"
    /\ method_desc = "none"
    /\ task_pc = "none"
    /\ task_failure = "none"
    /\ task_result = NotReturned
    /\ finish_result = NotReturned

\* the idle state of every later specification
RuntimeIdle ==
    RegistryIdle /\ DecoderIdle /\ CodecIdle /\ CallIdle /\ StreamIdle

HeaderIdle ==
    /\ hdr_pc = "off"
    /\ auth = None
    /\ metadata = None
    /\ entries = {}
    /\ req_builder = NotReturned
    /\ req = NotReturned

PathIdle ==
    /\ path_pc = "off"
    /\ command = "none"
    /\ descriptor_pool = <<>>
    /\ service = ""
    /\ method = ""
    /\ service_desc = None
    /\ grpc_path = None
    /\ path_ret = NotReturned

SampleIdle ==
    /\ sample_pc = "off"
    /\ operation = "none"
    /\ message_descs = <<>>
    /\ message_type = ""
    /\ sample_ret = NotReturned

SurfaceIdle ==
    /\ surface_pc = "off"
    /\ parser = "none"
    /\ declared = <<>>
    /\ proto_content = <<>>
    /\ parsed = NotReturned

FilesIdle ==
    /\ files_pc = "off"
    /\ files_cmd = "none"
    /\ import_paths = <<>>
    /\ protoc_outcome = NotReturned
    /\ proto_paths = <<>>
    /\ protoc_command = None
    /\ files_ret = NotReturned

TlsIdle ==
    /\ tls_pc = "off"
    /\ tls_cmd = "none"
    /\ tls_config = None
    /\ root_store = {}
    /\ client_config = NotReturned
    /\ https_connector = None
    /\ tls_ret = NotReturned

SetupIdle ==
    HeaderIdle /\ PathIdle /\ SampleIdle /\ SurfaceIdle /\ FilesIdle
        /\ TlsIdle

\* ------------------------------------------------------------------------
\* Channels of one stream
\* ------------------------------------------------------------------------

\* a mutant: finish_streaming does not drop the sender of the entry
SenderKept(s) == stream[s] \in {"entry", "finish", "returned"}

\* a mutant: the entry of the registry holds no sender
EntryHoldsNoSender(s) == FALSE

\* The ActiveClientStream value of stream s (the struct holding the sender
\* and the one-shot receiver) is
\*   "entry"    alive: a local of start_client_stream, then the map's value;
\*   "finish"   taken by finish_streaming: sender dropped, receiver awaited;
\*   "dropped"  dropped whole (replaced by a later insert for the same tab);
\*   "returned" its receiver has yielded the result to finish_streaming.
\* The entry's message_tx is alive:
SenderAlive(s) == stream[s] = "entry"

\* callers holding a clone of the stream's sender (send_stream_message
\* between its lookup and the end of the call)
SenderClones(s) == {c \in Callers : pc[c] = "send_push" /\ cstream[c] = s}

\* every UnboundedSender of the stream is dropped
AllSendersDropped(s) == ~SenderAlive(s) /\ SenderClones(s) = {}

\* message_rx is owned by the task until it spawns sender_task, then by
\* sender_task until that ends
RxAlive(s) == task[s] = "build" \/ sender_task[s] = "run"

\* the one-shot channel holds a value the receiver can still take
ResponseReady(s) == result[s] # "none" /\ stream[s] \in {"entry", "finish"}

\* ------------------------------------------------------------------------
\* The registry mutex
\* ------------------------------------------------------------------------

\* the command returns v: its arguments and locals are gone
Return(c, op, v) ==
    /\ pc' = [pc EXCEPT ![c] = "idle"]
    /\ ctab' = [ctab EXCEPT ![c] = "t1"]
    /\ cmsg' = [cmsg EXCEPT ![c] = 0]
    /\ cstream' = [cstream EXCEPT ![c] = 0]
    /\ ret' = [op |-> op, tab |-> ctab[c], stream |-> cstream[c], val |-> v]

LockPcs == {"open_lock", "send_lock", "finish_lock"}

CsPcs == {"open_cs", "send_cs", "finish_cs"}

CsOf(p) ==
    CASE p = "open_lock" -> "open_cs"
      [] p = "send_lock" -> "send_cs"
      [] p = "finish_lock" -> "finish_cs"

\* ACTIVE_CLIENT_STREAMS.lock().unwrap(): blocks until the mutex is free
MutexLock(c) ==
    /\ pc[c] \in LockPcs
    /\ lock = NoCaller
    /\ lock' = c
    /\ pc' = [pc EXCEPT ![c] = CsOf(pc[c])]
    /\ ret' = NoRet
    /\ UNCHANGED <<ACTIVE_CLIENT_STREAMS, ctab, cmsg, cstream>>
    /\ UNCHANGED streamVars
    /\ UNCHANGED <<decoderVars, codecVars, callVars, taskVars, setupVars>>

\* the guard of send_stream_message is dropped at the end of its block
SendGuardAfterBlock(c) == NoCaller

\* a mutant: the guard of finish_streaming lives on across the await
FinishGuardKept(c) == c

\* the guard of finish_streaming is dropped at the end of its block, before
\* response_receiver.await
FinishGuardAfterBlock(c) == NoCaller

\* the guard of start_client_stream is dropped when the function returns
OpenGuardAfterReturn(c) == NoCaller

\* ------------------------------------------------------------------------
\* start_client_stream
\* ------------------------------------------------------------------------

\* The proto does not compile, names no such service or method, or the
\* endpoint gives no URI: the command returns Err before it creates a channel
\* or a task.
start_client_stream_Reject(c, t) ==
    /\ pc[c] = "idle"
    /\ ops < MaxOps
    /\ ops' = ops + 1
    /\ ret' = [op |-> "open", tab |-> t, stream |-> 0, val |-> "err_setup"]
    /\ UNCHANGED <<nextStream, nextMsg, stream, task, sender_task, message_rx,
                   body, pushed, result>>
    /\ UNCHANGED <<registryVars, callerVars, setupVars>>
    /\ UNCHANGED <<decoderVars, codecVars, callVars, taskVars, setupVars>>

\* The channels are created and the background task is spawned before the
\* registry is touched.
start_client_stream_Spawn(c, t) ==
    /\ pc[c] = "idle"
    /\ ops < MaxOps
    /\ ops' = ops + 1
    /\ LET s == nextStream IN
        /\ nextStream' = s + 1
        /\ task' = [task EXCEPT ![s] = "build"]
        /\ stream' = [stream EXCEPT ![s] = "entry"]
        /\ pc' = [pc EXCEPT ![c] = "open_lock"]
        /\ ctab' = [ctab EXCEPT ![c] = t]
        /\ cstream' = [cstream EXCEPT ![c] = s]
    /\ ret' = NoRet
    /\ UNCHANGED <<cmsg, nextMsg, sender_task, message_rx, body, pushed, result>>
    /\ UNCHANGED registryVars
    /\ UNCHANGED <<decoderVars, codecVars, callVars, taskVars, setupVars>>

\* a mutant: an insert that keeps the entry already present
InsertKeepsOld(reg, t, s) == IF reg[t] = 0 THEN [reg EXCEPT ![t] = s] ELSE reg

\* HashMap::insert: overwrites
HashMapInsert(reg, t, s) == [reg EXCEPT ![t] = s]

\* streams.insert(tab_id, stream): the value it replaces is dropped, and with
\* it that stream's sender and one-shot receiver
start_client_stream_Insert(c) ==
    /\ pc[c] = "open_cs"
    /\ LET t == ctab[c]
           s == cstream[c]
           new == HashMapInsert(ACTIVE_CLIENT_STREAMS, t, s)
           \* the ActiveClientStream values dropped by the call
           gone == ({ACTIVE_CLIENT_STREAMS[t]} \ {0, new[t]})
                   \cup (IF new[t] = s THEN {} ELSE {s})
       IN
        /\ ACTIVE_CLIENT_STREAMS' = new
        /\ stream' =
             [x \in Streams |-> IF x \in gone THEN "dropped" ELSE stream[x]]
    /\ lock' = OpenGuardAfterReturn(c)
    /\ Return(c, "open", "Stream opened")
    /\ UNCHANGED <<nextStream, nextMsg, ops, task, sender_task, message_rx,
                   body, pushed, result>>
    /\ UNCHANGED <<decoderVars, codecVars, callVars, taskVars, setupVars>>

\* ------------------------------------------------------------------------
\* send_stream_message
\* ------------------------------------------------------------------------

send_stream_message_Start(c, t) ==
    /\ pc[c] = "idle"
    /\ ops < MaxOps
    /\ ops' = ops + 1
    /\ nextMsg' = nextMsg + 1
    /\ pc' = [pc EXCEPT ![c] = "send_lock"]
    /\ ctab' = [ctab EXCEPT ![c] = t]
    /\ cmsg' = [cmsg EXCEPT ![c] = nextMsg]
    /\ ret' = NoRet
    /\ UNCHANGED <<cstream, nextStream, stream, task, sender_task, message_rx,
                   body, pushed, result>>
    /\ UNCHANGED registryVars
    /\ UNCHANGED <<decoderVars, codecVars, callVars, taskVars, setupVars>>

\* streams.get(&tab_id), then clone the sender; the guard is dropped
send_stream_message_Lookup(c) ==
    /\ pc[c] = "send_cs"
    /\ LET s == ACTIVE_CLIENT_STREAMS[ctab[c]] IN
        IF s = 0
        THEN Return(c, "send", "Stream not found")
        ELSE /\ pc' = [pc EXCEPT ![c] = "send_push"]
             /\ cstream' = [cstream EXCEPT ![c] = s]
             /\ ret' = NoRet
             /\ UNCHANGED <<ctab, cmsg>>
    /\ lock' = SendGuardAfterBlock(c)
    /\ UNCHANGED ACTIVE_CLIENT_STREAMS
    /\ UNCHANGED streamVars
    /\ UNCHANGED <<decoderVars, codecVars, callVars, taskVars, setupVars>>

\* a mutant: a channel that puts the newest frame first
PushFront(q, f) == <<f>> \o q

\* a mutant: a send that queues its frame twice
SendTwice(q, f) == Append(Append(q, f), f)

\* UnboundedSender::send: append to the queue
ChannelSend(q, f) == Append(q, f)

\* Parse the body, frame it, sender.send(framed_message).  The body argument
\* is valid JSON for the input descriptor or not; the clone is dropped when
\* the call returns.
send_stream_message_Push(c, valid) ==
    /\ pc[c] = "send_push"
    /\ LET s == cstream[c] IN
        IF ~valid
        THEN /\ Return(c, "send", "Failed to parse")
             /\ UNCHANGED <<message_rx, pushed>>
        ELSE IF RxAlive(s)
        THEN /\ message_rx' =
                  [message_rx EXCEPT ![s] = ChannelSend(message_rx[s], cmsg[c])]
             /\ pushed' = [pushed EXCEPT ![s] = Append(pushed[s], cmsg[c])]
             /\ Return(c, "send", "sent")
        ELSE /\ Return(c, "send", "Failed to send")
             /\ UNCHANGED <<message_rx, pushed>>
    /\ UNCHANGED <<nextStream, nextMsg, ops, stream, task, sender_task, body,
                   result>>
    /\ UNCHANGED registryVars
    /\ UNCHANGED <<decoderVars, codecVars, callVars, taskVars, setupVars>>

\* ------------------------------------------------------------------------
\* finish_streaming
\* ------------------------------------------------------------------------

finish_streaming_Start(c, t) ==
    /\ pc[c] = "idle"
    /\ ops < MaxOps
    /\ ops' = ops + 1
    /\ pc' = [pc EXCEPT ![c] = "finish_lock"]
    /\ ctab' = [ctab EXCEPT ![c] = t]
    /\ ret' = NoRet
    /\ UNCHANGED <<cmsg, cstream>>
    /\ UNCHANGED <<nextStream, nextMsg, stream, task, sender_task, message_rx,
                   body, pushed, result>>
    /\ UNCHANGED registryVars
    /\ UNCHANGED <<decoderVars, codecVars, callVars, taskVars, setupVars>>

\* a mutant: look the entry up without removing it
HashMapPeek(reg, t) == reg

\* HashMap::remove
HashMapRemove(reg, t) == [reg EXCEPT ![t] = 0]

\* streams.remove(&tab_id); drop(stream.sender); keep the receiver
finish_streaming_Remove(c) ==
    /\ pc[c] = "finish_cs"
    /\ LET s == ACTIVE_CLIENT_STREAMS[ctab[c]] IN
        IF s = 0
        THEN /\ Return(c, "finish", "Stream not found")
             /\ lock' = NoCaller
             /\ UNCHANGED <<ACTIVE_CLIENT_STREAMS, stream>>
        ELSE /\ ACTIVE_CLIENT_STREAMS' =
                  HashMapRemove(ACTIVE_CLIENT_STREAMS, ctab[c])
             /\ stream' = [stream EXCEPT ![s] = "finish"]
             /\ pc' = [pc EXCEPT ![c] = "finish_await"]
             /\ cstream' = [cstream EXCEPT ![c] = s]
             /\ lock' = FinishGuardAfterBlock(c)
             /\ ret' = NoRet
             /\ UNCHANGED <<ctab, cmsg>>
    /\ UNCHANGED <<nextStream, nextMsg, ops, task, sender_task, message_rx,
                   body, pushed, result>>
    /\ UNCHANGED <<decoderVars, codecVars, callVars, taskVars, setupVars>>

\* a mutant: the awaited value replaced by a fixed envelope
ReceivedStale(v) == "ok"

\* response_receiver.await yields the value the task sent
Received(v) == v

\* response_receiver.await, then return the result
finish_streaming_Await(c) ==
    /\ pc[c] = "finish_await"
    /\ LET s == cstream[c] IN
        /\ ResponseReady(s)
        /\ Return(c, "finish", Received(result[s]))
        /\ stream' = [stream EXCEPT ![s] = "returned"]
    /\ lock' = IF lock = c THEN NoCaller ELSE lock
    /\ UNCHANGED ACTIVE_CLIENT_STREAMS
    /\ UNCHANGED <<nextStream, nextMsg, ops, task, sender_task, message_rx,
                   body, pushed, result>>
    /\ UNCHANGED <<decoderVars, codecVars, callVars, taskVars, setupVars>>

\* ------------------------------------------------------------------------
\* The background task of a stream and its sender_task
\* ------------------------------------------------------------------------

\* a mutant: the task removes the entries of its stream when it exits
RegistryPurged(reg, s) == [t \in Tabs |-> IF reg[t] = s THEN 0 ELSE reg[t]]

\* the task never touches ACTIVE_CLIENT_STREAMS
RegistryAfterTaskExit(reg, s) == reg

\* a mutant: a channel that keeps no value its receiver is not waiting for
TaskExitUnawaited(s, r) ==
    /\ task' = [task EXCEPT ![s] = "done"]
    /\ result' =
        [result EXCEPT ![s] = IF stream[s] = "finish" THEN r ELSE "none"]
    /\ ACTIVE_CLIENT_STREAMS' = RegistryAfterTaskExit(ACTIVE_CLIENT_STREAMS, s)

\* let _ = response_tx.send(result): the last step of the task.  The value
\* is lost when the receiver is already dropped.
TaskExit(s, r) ==
    /\ task' = [task EXCEPT ![s] = "done"]
    /\ result' = [result EXCEPT ![s] = r]
    /\ ACTIVE_CLIENT_STREAMS' = RegistryAfterTaskExit(ACTIVE_CLIENT_STREAMS, s)

\* req_builder...body(body_receiver)?, build the client, client.request(req),
\* spawn sender_task.  The request build fails on a header the metadata or
\* the auth config makes invalid; message_rx is then dropped with the future.
task_Build(s, built) ==
    /\ task[s] = "build"
    /\ IF built
       THEN /\ task' = [task EXCEPT ![s] = "await_resp"]
            /\ sender_task' = [sender_task EXCEPT ![s] = "run"]
            /\ UNCHANGED <<result, ACTIVE_CLIENT_STREAMS>>
       ELSE /\ TaskExit(s, "err_build")
            /\ UNCHANGED sender_task
    /\ ret' = NoRet
    /\ UNCHANGED <<nextStream, nextMsg, ops, stream, message_rx, body, pushed>>
    /\ UNCHANGED <<lock, callerVars>>
    /\ UNCHANGED <<decoderVars, codecVars, callVars, taskVars, setupVars>>

\* response_future.await: the response head arrives, or the call fails.  The
\* branch taken afterwards is that of is_bidirectional (line 850), which
\* nothing reads before this point.  A bidirectional stream then reads the
\* response body to its end (or to the first read error, which breaks the
\* loop) before it joins sender_task; what that loop emits is the subject of
\* DecoderSpec.
task_Response(s, arrived, bidi) ==
    /\ task[s] = "await_resp"
    /\ IF arrived
       THEN /\ task' =
                 [task EXCEPT
                    ![s] = IF bidi THEN "join_bidi" ELSE "join"]
            /\ UNCHANGED <<result, ACTIVE_CLIENT_STREAMS>>
       ELSE TaskExit(s, "err_call")
    /\ ret' = NoRet
    /\ UNCHANGED <<nextStream, nextMsg, ops, stream, sender_task, message_rx,
                   body, pushed>>
    /\ UNCHANGED <<lock, callerVars>>
    /\ UNCHANGED <<decoderVars, codecVars, callVars, taskVars, setupVars>>

\* let _ = sender_task.await.  A bidirectional stream then returns its
\* completion envelope; a client stream reads the response body and decodes
\* its single frame, which fails on a read error, a short or incomplete
\* body, or an undecodable message.
task_Join(s, decoded) ==
    /\ task[s] \in {"join", "join_bidi"}
    /\ sender_task[s] \in {"closed", "broke"}
    /\ IF task[s] = "join_bidi"
       THEN TaskExit(s, "ok")
       ELSE TaskExit(s, IF decoded THEN "ok" ELSE "err_response")
    /\ ret' = NoRet
    /\ UNCHANGED <<nextStream, nextMsg, ops, stream, sender_task, message_rx,
                   body, pushed>>
    /\ UNCHANGED <<lock, callerVars>>
    /\ UNCHANGED <<decoderVars, codecVars, callVars, taskVars, setupVars>>

\* a mutant: a forwarder that takes the newest frame
RecvLast(q) == [frame |-> q[Len(q)], rest |-> SubSeq(q, 1, Len(q) - 1)]

\* message_rx.recv(): the oldest frame
ChannelRecv(q) == [frame |-> Head(q), rest |-> Tail(q)]

\* the request was dropped with the failed call: nothing reads the body
BodyGone(s) == result[s] = "err_call"

\* while let Some(message_bytes) = message_rx.recv().await { send_data }:
\* one frame goes to the body; a failed send_data (the body is gone, or the
\* peer has reset the stream) breaks the loop, which drops message_rx with
\* whatever is still queued
sender_task_Forward(s, written) ==
    /\ sender_task[s] = "run"
    /\ message_rx[s] # <<>>
    /\ LET got == ChannelRecv(message_rx[s]) IN
        IF written /\ ~BodyGone(s)
        THEN /\ body' = [body EXCEPT ![s] = Append(body[s], got.frame)]
             /\ message_rx' = [message_rx EXCEPT ![s] = got.rest]
             /\ UNCHANGED sender_task
        ELSE /\ sender_task' = [sender_task EXCEPT ![s] = "broke"]
             /\ message_rx' = [message_rx EXCEPT ![s] = <<>>]
             /\ UNCHANGED body
    /\ ret' = NoRet
    /\ UNCHANGED <<nextStream, nextMsg, ops, stream, task, pushed, result>>
    /\ UNCHANGED <<registryVars, callerVars, setupVars>>
    /\ UNCHANGED <<decoderVars, codecVars, callVars, taskVars, setupVars>>

\* recv() returns None: every sender is dropped and the queue is drained.
\* body_sender is dropped, which ends the request body.
sender_task_Close(s) ==
    /\ sender_task[s] = "run"
    /\ message_rx[s] = <<>>
    /\ AllSendersDropped(s)
    /\ sender_task' = [sender_task EXCEPT ![s] = "closed"]
    /\ ret' = NoRet
    /\ UNCHANGED <<nextStream, nextMsg, ops, stream, task, message_rx, body,
                   pushed, result>>
    /\ UNCHANGED <<registryVars, callerVars, setupVars>>
    /\ UNCHANGED <<decoderVars, codecVars, callVars, taskVars, setupVars>>

\* ------------------------------------------------------------------------
\* Spec: the stream registry
\* ------------------------------------------------------------------------

Init ==
    RegistryIdle /\ DecoderIdle /\ CodecIdle /\ CallIdle /\ StreamIdle
        /\ SetupIdle

Next ==
    \/ \E c \in Callers, t \in Tabs : start_client_stream_Reject(c, t)
    \/ \E c \in Callers, t \in Tabs : start_client_stream_Spawn(c, t)
    \/ \E c \in Callers : start_client_stream_Insert(c)
    \/ \E c \in Callers, t \in Tabs : send_stream_message_Start(c, t)
    \/ \E c \in Callers : send_stream_message_Lookup(c)
    \/ \E c \in Callers, valid \in BOOLEAN : send_stream_message_Push(c, valid)
    \/ \E c \in Callers, t \in Tabs : finish_streaming_Start(c, t)
    \/ \E c \in Callers : finish_streaming_Remove(c)
    \/ \E c \in Callers : finish_streaming_Await(c)
    \/ \E c \in Callers : MutexLock(c)
    \/ \E s \in Streams, built \in BOOLEAN : task_Build(s, built)
    \/ \E s \in Streams, arrived, bidi \in BOOLEAN :
          task_Response(s, arrived, bidi)
    \/ \E s \in Streams, decoded \in BOOLEAN : task_Join(s, decoded)
    \/ \E s \in Streams, written \in BOOLEAN : sender_task_Forward(s, written)
    \/ \E s \in Streams : sender_task_Close(s)

Spec == Init /\ [][Next]_vars

\* the fairness of the runtime towards the command handlers: a handler that
\* is polled runs its synchronous code to the next await, and a thread that
\* waits for the mutex gets it if it is free again and again.  Nothing is
\* assumed of the network, hence of the background tasks and of the await in
\* finish_streaming.
HandlerFairness(c) ==
    /\ SF_vars(MutexLock(c))
    /\ WF_vars(start_client_stream_Insert(c))
    /\ WF_vars(send_stream_message_Lookup(c))
    /\ WF_vars(\E valid \in BOOLEAN : send_stream_message_Push(c, valid))
    /\ WF_vars(finish_streaming_Remove(c))

FairSpec == Spec /\ \A c \in Callers : HandlerFairness(c)

\* ------------------------------------------------------------------------
\* Properties of the stream registry
\* ------------------------------------------------------------------------

StreamNotFound == "Stream not found"

\* the tabs whose entry holds stream s
TabsOf(s) == {t \in Tabs : ACTIVE_CLIENT_STREAMS[t] = s}

\* the step is caller c's finish_streaming taking the entry of its tab
FinishTakes(c) == pc[c] = "finish_cs" /\ pc'[c] = "finish_await"

\* the step is caller c's start_client_stream inserting its stream
OpenInserts(c) == pc[c] = "open_cs" /\ pc'[c] = "idle"

\* C1: a send on a tab whose stream is not open fails with 'Stream not
\* found' and pushes nothing; in particular no send reports success for a
\* frame it pushed after finish_streaming had removed the stream's entry.
C1_NoSendAfterFinish ==
    (ret.op = "send" /\ ret.val = "sent")
        => stream[ret.stream] \notin {"finish", "returned"}

\* C2: finish_streaming on a tab with an entry removes the entry and drops
\* the entry's sender, waits for the one-shot value and returns exactly the
\* result of the stream's task; the stream it has taken is in the registry no
\* more, and the tab gets an entry again only by a later insert of
\* start_client_stream.  On a tab without an entry it fails with 'Stream not
\* found' and leaves the registry as it was.
C2_FinishStep ==
    /\ \A c \in Callers :
        /\ FinishTakes(c) =>
            /\ ACTIVE_CLIENT_STREAMS[ctab[c]] # 0
            /\ cstream'[c] = ACTIVE_CLIENT_STREAMS[ctab[c]]
            /\ ACTIVE_CLIENT_STREAMS'[ctab[c]] = 0
            /\ stream'[cstream'[c]] = "finish"
        /\ (pc[c] = "finish_cs" /\ pc'[c] # "finish_cs"
                /\ ACTIVE_CLIENT_STREAMS[ctab[c]] = 0) =>
            /\ ret' = [op |-> "finish", tab |-> ctab[c], stream |-> 0,
                       val |-> StreamNotFound]
            /\ ACTIVE_CLIENT_STREAMS' = ACTIVE_CLIENT_STREAMS
        /\ (pc[c] = "finish_await" /\ pc'[c] # "finish_await") =>
            /\ result[cstream[c]] # "none"
            /\ ret' = [op |-> "finish", tab |-> ctab[c],
                       stream |-> cstream[c], val |-> result[cstream[c]]]
            /\ \A t \in Tabs : ACTIVE_CLIENT_STREAMS'[t] # cstream[c]
    /\ \A t \in Tabs :
        (ACTIVE_CLIENT_STREAMS[t] = 0 /\ ACTIVE_CLIENT_STREAMS'[t] # 0) =>
            \E c \in Callers : OpenInserts(c) /\ ctab[c] = t

C2_FinishState ==
    /\ \A c \in Callers :
        pc[c] = "finish_await" =>
            /\ stream[cstream[c]] = "finish"
            /\ TabsOf(cstream[c]) = {}
    /\ (ret.op = "finish" /\ ret.val # StreamNotFound) =>
            /\ ret.val = result[ret.stream]
            /\ stream[ret.stream] = "returned"
            /\ TabsOf(ret.stream) = {}
    /\ (ret.op = "finish" /\ ret.val = StreamNotFound) => ret.stream = 0

C3_OverwriteStep ==
    /\ \A c \in Callers :
        /\ OpenInserts(c) =>
            LET old == ACTIVE_CLIENT_STREAMS[ctab[c]] IN
                /\ ACTIVE_CLIENT_STREAMS'[ctab[c]] = cstream[c]
                /\ old # 0 =>
                    /\ \A t \in Tabs : ACTIVE_CLIENT_STREAMS'[t] # old
                    /\ stream'[old] = "dropped"
                    /\ task'[old] = task[old]
                    /\ sender_task'[old] = sender_task[old]
        /\ (pc[c] = "send_cs" /\ pc'[c] = "send_push") =>
                cstream'[c] = ACTIVE_CLIENT_STREAMS[ctab[c]]
        /\ FinishTakes(c) => cstream'[c] = ACTIVE_CLIENT_STREAMS[ctab[c]]
    /\ \A s \in Streams :
        /\ stream[s] = "dropped" => stream'[s] = "dropped"
        /\ (sender_task[s] = "run" /\ sender_task'[s] = "closed") =>
                AllSendersDropped(s)
        /\ (task[s] # "done" /\ task'[s] = "done" /\ sender_task[s] = "run")
                => result'[s] = "err_call"

C3_OverwriteState ==
    /\ \A s \in Streams :
        stream[s] = "dropped" =>
            /\ TabsOf(s) = {}
            /\ \A c \in Callers : pc[c] = "finish_await" => cstream[c] # s
            /\ ~(ret.op = "finish" /\ ret.stream = s)
    /\ \A t \in Tabs :
        ACTIVE_CLIENT_STREAMS[t] # 0 =>
            stream[ACTIVE_CLIENT_STREAMS[t]] = "entry"

C3_Overwrite == []C3_OverwriteState /\ [][C3_OverwriteStep]_vars

\* a stream was replaced, its task has run to its end, and a send on the
\* tab has pushed into the stream that replaced it
C3_Witness ==
    \E s \in Streams :
        /\ stream[s] = "dropped"
        /\ task[s] = "done"
        /\ result[s] = "ok"
        /\ ret.op = "send"
        /\ ret.val = "sent"
        /\ ret.stream > s
        /\ ACTIVE_CLIENT_STREAMS[ret.tab] = ret.stream

\* C4 as the claim states it: once the background task of a stream has
\* exited, the registry holds no entry for that stream.
C4_NoEntryOfExitedTask ==
    \A s \in Streams : task[s] = "done" => TabsOf(s) = {}

\* C4, amended: the entry of a stream leaves the registry only by a
\* finish_streaming on its tab or by a later insert for its tab; the exit of
\* the stream's task leaves the registry as it is.
C4_EntryRemovedOnlyByCommand ==
    [][ /\ \A t \in Tabs :
            (ACTIVE_CLIENT_STREAMS[t] # 0
                /\ ACTIVE_CLIENT_STREAMS'[t] # ACTIVE_CLIENT_STREAMS[t]) =>
                    \E c \in Callers :
                        /\ ctab[c] = t
                        /\ FinishTakes(c) \/ OpenInserts(c)
        /\ \A s \in Streams :
            (task[s] # "done" /\ task'[s] = "done") =>
                ACTIVE_CLIENT_STREAMS' = ACTIVE_CLIENT_STREAMS
      ]_vars

\* the task of a stream has exited and the stream's entry is in the registry
C4_Witness ==
    \E t \in Tabs :
        /\ ACTIVE_CLIENT_STREAMS[t] # 0
        /\ task[ACTIVE_CLIENT_STREAMS[t]] = "done"
        /\ result[ACTIVE_CLIENT_STREAMS[t]] = "ok"

\* the awaits of the command handlers and of the tasks
AwaitPcs == {"finish_await"}

\* C5: the registry mutex is held only for the lookup, the insert or the
\* remove: its holder is a command inside its critical section, and no
\* command suspended at an await (and no task) holds it.
C5_LockOnlyInCriticalSection ==
    /\ lock \in Callers \cup {NoCaller}
    /\ \A c \in Callers :
        /\ lock = c => pc[c] \in CsPcs
        /\ pc[c] \in AwaitPcs => lock # c
        /\ pc[c] \in CsPcs => lock = c

\* one command awaits the one-shot while another holds the mutex
C5_Witness ==
    \E c, d \in Callers :
        /\ c # d
        /\ pc[c] = "finish_await"
        /\ result[cstream[c]] = "none"
        /\ lock = d

\* caller c runs a command on a tab while another caller's finish_streaming
\* waits for the task of a stream of another tab
BehindWaitingFinish(c) ==
    /\ pc[c] \in LockPcs
    /\ \E d \in Callers \ {c} : pc[d] = "finish_await" /\ ctab[d] # ctab[c]

\* caller c's command has done its registry access: start_client_stream and
\* send_stream_message have returned, finish_streaming has taken the entry
\* (or has returned)
PastRegistry(c) == pc[c] \in {"idle", "finish_await"}

\* C6: a command on a tab is not blocked by commands on another tab: while
\* a finish_streaming waits for its stream's task, however long, a command
\* on another tab acquires the registry and completes its registry access.
C6_NoCrossTabBlocking ==
    \A c \in Callers : BehindWaitingFinish(c) ~> PastRegistry(c)

\* a start_client_stream returns while a finish_streaming of another tab
\* waits for a task that has not ended
C6_Witness ==
    \E c, d \in Callers :
        /\ c # d
        /\ pc[d] = "finish_await"
        /\ result[cstream[d]] = "none"
        /\ pc[c] = "idle"
        /\ ret.op = "open"
        /\ ret.tab # ctab[d]

Bytes == {0, 1}

SeqsUpTo(S, n) == UNION {[1 .. k -> S] : k \in 0 .. n}

\* a mutant: the length written least significant byte first
u32_to_le_bytes(n) ==
    <<n % 256, (n \div 256) % 256, (n \div 65536) % 256,
      (n \div 16777216) % 256>>

\* (message_bytes.len() as u32).to_be_bytes(): the four low bytes of the
\* length, the most significant first
u32_to_be_bytes(n) ==
    <<(n \div 16777216) % 256, (n \div 65536) % 256, (n \div 256) % 256,
      n % 256>>

\* framed_message of send_stream_message: no compression, length, payload
Frame(message_bytes) ==
    <<0>> \o u32_to_be_bytes(Len(message_bytes)) \o message_bytes

RECURSIVE Concat(_)
\* the frames of a list of payloads, one after the other
Concat(list) ==
    IF list = <<>> THEN <<>> ELSE Frame(Head(list)) \o Concat(Tail(list))

\* a mutant: the length read least significant byte first
u32_from_le_bytes(b) ==
    b[1] + b[2] * 256 + b[3] * 65536 + b[4] * 16777216

\* u32::from_be_bytes
u32_from_be_bytes(b) ==
    b[1] * 16777216 + b[2] * 65536 + b[3] * 256 + b[4]

\* ------------------------------------------------------------------------
\* The streaming decoders of call_grpc_method (server streaming) and of
\* start_client_stream (bidirectional streaming)
\* ------------------------------------------------------------------------

\* DynamicMessage::decode and serde_json::to_value are taken by their
\* outcome: a payload that starts with the byte 0 (a tag with field number
\* 0) does not decode, every other payload does.  The JSON value of a
\* message stands for its payload.
DecodeOk(message_bytes) == message_bytes = <<>> \/ message_bytes[1] # 0

Loop(buf, index, evs, msgs, err) ==
    [buffer |-> buf, message_index |-> index, events |-> evs,
     response_messages |-> msgs, err |-> err]

\* a mutant: the index is not advanced
IndexKept(index) == index

\* message_index += 1
NextIndex(index) == index + 1

\* a mutant: the newest event goes first
EmitFirst(evs, index, data) == <<[index |-> index, data |-> data]>> \o evs

\* app.emit("grpc-stream-message", {index, data}): the event is recorded when
\* emit is called; the code logs or discards the result of the call
Emit(evs, index, data) == Append(evs, [index |-> index, data |-> data])

RECURSIVE ServerStreamFrames(_, _, _, _)
\* the inner loop of call_grpc_method: every complete frame of the buffer is
\* cut off, decoded, emitted and pushed to response_messages; a payload that
\* does not decode makes the call return Err
ServerStreamFrames(buf, index, evs, msgs) ==
    IF Len(buf) < 5 THEN Loop(buf, index, evs, msgs, FALSE)
    ELSE LET message_len == u32_from_be_bytes(SubSeq(buf, 2, 5)) IN
        IF Len(buf) < 5 + message_len THEN Loop(buf, index, evs, msgs, FALSE)
        ELSE LET message_bytes == SubSeq(buf, 6, 5 + message_len)
                 rest == SubSeq(buf, 6 + message_len, Len(buf))
             IN IF DecodeOk(message_bytes)
                THEN ServerStreamFrames(rest, NextIndex(index),
                                        Emit(evs, index, message_bytes),
                                        Append(msgs, message_bytes))
                ELSE Loop(rest, index, evs, msgs, TRUE)

RECURSIVE BidiStreamFrames(_, _, _)
\* the inner loop of start_client_stream: as above, but a payload that does
\* not decode is logged and skipped, and nothing is collected
BidiStreamFrames(buf, index, evs) ==
    IF Len(buf) < 5 THEN Loop(buf, index, evs, <<>>, FALSE)
    ELSE LET message_len == u32_from_be_bytes(SubSeq(buf, 2, 5)) IN
        IF Len(buf) < 5 + message_len THEN Loop(buf, index, evs, <<>>, FALSE)
        ELSE LET message_bytes == SubSeq(buf, 6, 5 + message_len)
                 rest == SubSeq(buf, 6 + message_len, Len(buf))
             IN IF DecodeOk(message_bytes)
                THEN BidiStreamFrames(rest, NextIndex(index),
                                      Emit(evs, index, message_bytes))
                ELSE BidiStreamFrames(rest, index, evs)

\* a mutant: the chunk replaces what the buffer held
ChunkOnly(buf, chunk) == chunk

\* buffer.extend_from_slice(&chunk)
extend_from_slice(buf, chunk) == buf \o chunk

\* body_stream.next() yields Ok(chunk): the next n bytes of the body
body_stream_Chunk(n) ==
    /\ d_pc = "read"
    /\ n <= Len(body_stream)
    /\ LET chunk == SubSeq(body_stream, 1, n)
           extended == extend_from_slice(buffer, chunk)
           r == IF is_bidirectional
                THEN BidiStreamFrames(extended, message_index, events)
                ELSE ServerStreamFrames(extended, message_index, events,
                                        response_messages)
       IN
        /\ body_stream' = SubSeq(body_stream, n + 1, Len(body_stream))
        /\ buffer' = r.buffer
        /\ message_index' = r.message_index
        /\ events' = r.events
        /\ response_messages' = r.response_messages
        /\ d_pc' = IF r.err THEN "failed" ELSE "read"
    /\ UNCHANGED <<is_bidirectional, frames_sent>>
    /\ UNCHANGED <<registryVars, callerVars, ret, streamVars, codecVars,
                   callVars, taskVars, setupVars>>

\* body_stream.next() yields None: the loop ends, whatever the buffer holds
body_stream_End ==
    /\ d_pc = "read"
    /\ d_pc' = "done"
    /\ UNCHANGED <<is_bidirectional, frames_sent, body_stream, buffer,
                   message_index, events, response_messages>>
    /\ UNCHANGED <<registryVars, callerVars, ret, streamVars, codecVars,
                   callVars, taskVars, setupVars>>

\* body_stream.next() yields Err: call_grpc_method returns Err, the loop of
\* start_client_stream breaks
body_stream_Error ==
    /\ d_pc = "read"
    /\ d_pc' = IF is_bidirectional THEN "done" ELSE "failed"
    /\ UNCHANGED <<is_bidirectional, frames_sent, body_stream, buffer,
                   message_index, events, response_messages>>
    /\ UNCHANGED <<registryVars, callerVars, ret, streamVars, codecVars,
                   callVars, taskVars, setupVars>>

\* the server frames a list of payloads; the loop starts with an empty buffer
\* and message_index = 0
DecoderInit ==
    /\ RegistryIdle
    /\ CodecIdle
    /\ CallIdle
    /\ StreamIdle
    /\ SetupIdle
    /\ d_pc = "read"
    /\ is_bidirectional \in BOOLEAN
    /\ frames_sent \in SeqsUpTo(SeqsUpTo(Bytes, MaxPayload), MaxFrames)
    /\ body_stream = Concat(frames_sent)
    /\ buffer = <<>>
    /\ message_index = 0
    /\ events = <<>>
    /\ response_messages = <<>>

DecoderNext ==
    \/ \E n \in 1 .. MaxChunk : body_stream_Chunk(n)
    \/ body_stream_End
    \/ body_stream_Error

DecoderSpec == DecoderInit /\ [][DecoderNext]_vars

\* the bytes of the body delivered so far
Delivered == Len(Concat(frames_sent)) - Len(body_stream)

\* the payloads whose frames have been delivered whole, in wire order
FramesReceived ==
    LET n == CHOOSE k \in 0 .. Len(frames_sent) :
                /\ Len(Concat(SubSeq(frames_sent, 1, k))) <= Delivered
                /\ \A j \in k + 1 .. Len(frames_sent) :
                      Len(Concat(SubSeq(frames_sent, 1, j))) > Delivered
    IN SubSeq(frames_sent, 1, n)

EventData == [i \in 1 .. Len(events) |-> events[i].data]

\* C8: the events of one stream are emitted in the wire order of their
\* frames, the first with index 0 and each later one with the index of the
\* one before plus 1: the events are the decodable payloads received so far
\* (up to the payload on which call_grpc_method gave up), in their order.
C8_EventsInWireOrder ==
    d_pc # "off" =>
        /\ \A i \in 1 .. Len(events) : events[i].index = i - 1
        /\ message_index = Len(events)
        /\ IsPrefix(EventData, SelectSeq(FramesReceived, DecodeOk))
        /\ d_pc # "failed" => EventData = SelectSeq(FramesReceived, DecodeOk)
        /\ ~is_bidirectional => response_messages = EventData

\* a bidirectional stream has skipped a payload that does not decode and
\* has emitted the payloads before and after it
C8_Witness ==
    /\ is_bidirectional
    /\ Len(frames_sent) = 3
    /\ ~DecodeOk(frames_sent[2])
    /\ Len(events) = 2
    /\ events[2].index = 1
    /\ events[2].data = frames_sent[3]

\* ------------------------------------------------------------------------
\* The buffered frame reader read_grpc_frames
\* ------------------------------------------------------------------------

Ok(list) == [status |-> "ok", frames |-> list]

\* Err(String): an error carries no frames
Err == [status |-> "err", frames |-> <<>>]

\* an index or a slice outside the buffer panics
Panic == [status |-> "panic", frames |-> <<>>]

\* a mutant: the loop goes on while four bytes are left
HeaderFitsShort(offset, len) == offset + 4 <= len

\* while offset + 5 <= body_bytes.len()
HeaderFits(offset, len) == offset + 5 <= len

\* a mutant: the check counts the header bytes twice
PayloadOverrunsFromHeader(offset, message_len, len) ==
    offset + 5 + message_len > len

\* if offset + message_len > body_bytes.len(), offset being past the header
PayloadOverruns(offset, message_len, len) == offset + message_len > len

RECURSIVE ReadLoop(_, _, _)
\* the loop of read_grpc_frames; offset counts from 0 as in the code, the
\* sequence body_bytes from 1
ReadLoop(bytes, offset, list) ==
    IF ~HeaderFits(offset, Len(bytes)) THEN Ok(list)
    ELSE IF offset + 4 >= Len(bytes) THEN Panic
    ELSE LET message_len ==
                 u32_from_be_bytes(<<bytes[offset + 2], bytes[offset + 3],
                                     bytes[offset + 4], bytes[offset + 5]>>)
             start == offset + 5
         IN IF PayloadOverruns(start, message_len, Len(bytes)) THEN Err
            ELSE IF start + message_len > Len(bytes) THEN Panic
            ELSE ReadLoop(bytes, start + message_len,
                          Append(list,
                                 SubSeq(bytes, start + 1, start + message_len)))

read_grpc_frames(bytes) == ReadLoop(bytes, 0, <<>>)

\* send_stream_message frames one message; the frames of a stream follow
\* one another in the body
send_stream_message_Frame ==
    /\ k_pc = "frame"
    /\ framed < Len(payloads)
    /\ body_bytes' = body_bytes \o Frame(payloads[framed + 1])
    /\ framed' = framed + 1
    /\ UNCHANGED <<k_pc, payloads, tail, frames>>
    /\ UNCHANGED <<registryVars, callerVars, ret, streamVars, decoderVars,
                   callVars, taskVars, setupVars>>

\* the body goes on with bytes that were framed by nobody
body_bytes_Tail ==
    /\ k_pc = "frame"
    /\ framed = Len(payloads)
    /\ tail # <<>>
    /\ body_bytes' = body_bytes \o tail
    /\ k_pc' = "tail"
    /\ UNCHANGED <<payloads, tail, framed, frames>>
    /\ UNCHANGED <<registryVars, callerVars, ret, streamVars, decoderVars,
                   callVars, taskVars, setupVars>>

\* read_grpc_frames(&body_bytes)
read_grpc_frames_Call ==
    /\ \/ k_pc = "frame" /\ framed = Len(payloads)
       \/ k_pc = "tail"
    /\ frames' = read_grpc_frames(body_bytes)
    /\ k_pc' = "read"
    /\ UNCHANGED <<payloads, tail, body_bytes, framed>>
    /\ UNCHANGED <<registryVars, callerVars, ret, streamVars, decoderVars,
                   callVars, taskVars, setupVars>>

CodecInit ==
    /\ RegistryIdle
    /\ DecoderIdle
    /\ CallIdle
    /\ StreamIdle
    /\ SetupIdle
    /\ k_pc = "frame"
    /\ payloads \in SeqsUpTo(SeqsUpTo(Bytes, MaxPayload), MaxBuffered)
    /\ tail \in SeqsUpTo(Bytes, MaxTail)
    /\ body_bytes = <<>>
    /\ framed = 0
    /\ frames = NoResult

CodecNext ==
    \/ send_stream_message_Frame
    \/ body_bytes_Tail
    \/ read_grpc_frames_Call

CodecSpec == CodecInit /\ [][CodecNext]_vars

\* C9: the frame reader applied to the frames of a list of payloads returns
\* Ok with exactly that list, the empty list and empty payloads included.
C9_RoundTrip ==
    (k_pc = "read" /\ body_bytes = Concat(payloads)) => frames = Ok(payloads)

\* two payloads, an empty one and a non-empty one, were framed and read back
C9_Witness ==
    /\ k_pc = "read"
    /\ Len(payloads) = 2
    /\ payloads[1] = <<>>
    /\ payloads[2] = <<1>>
    /\ body_bytes = <<0, 0, 0, 0, 0, 0, 0, 0, 0, 1, 1>>
    /\ frames = Ok(payloads)

\* the bytes of the buffer that follow the frames of the payloads
Trailing == SubSeq(body_bytes, Len(Concat(payloads)) + 1, Len(body_bytes))

\* the length the first five trailing bytes declare
Declared == u32_from_be_bytes(SubSeq(Trailing, 2, 5))

\* C10: when fewer than 5 bytes follow the complete frames, the reader
\* ignores them and returns Ok with the frames; when a complete header
\* follows that declares more bytes than remain, it returns the 'Invalid
\* frame' error and no frames; it never reads outside the buffer.
C10_TrailingBytes ==
    k_pc = "read" =>
        /\ frames.status # "panic"
        /\ Len(Trailing) < 5 => frames = Ok(payloads)
        /\ (Len(Trailing) >= 5 /\ Declared > Len(Trailing) - 5) => frames = Err

\* a frame is followed by four bytes, which the reader ignores
C10_WitnessTrailing ==
    /\ k_pc = "read"
    /\ payloads = <<<<1>>>>
    /\ Trailing = <<0, 1, 1, 1>>
    /\ frames = Ok(payloads)

\* a frame is followed by a header that declares one byte where none is
\* left: the reader returns the error, and the frame before it is lost
C10_Witness ==
    /\ k_pc = "read"
    /\ payloads = <<<<1>>>>
    /\ Trailing = <<0, 0, 0, 0, 1>>
    /\ frames = Err

\* ------------------------------------------------------------------------
\* Strings the code inspects, as the sequences of their bytes
\* ------------------------------------------------------------------------

\* "0"
str_0 == <<48>>

\* "unknown"
str_unknown == <<117, 110, 107, 110, 111, 119, 110>>

\* "UNAVAILABLE"
str_UNAVAILABLE == <<85, 78, 65, 86, 65, 73, 76, 65, 66, 76, 69>>

\* "certificate"
str_certificate == <<99, 101, 114, 116, 105, 102, 105, 99, 97, 116, 101>>

\* "tls"
str_tls == <<116, 108, 115>>

\* "ssl"
str_ssl == <<115, 115, 108>>

\* "connection refused"
str_connection_refused ==
    <<99, 111, 110, 110, 101, 99, 116, 105, 111, 110, 32, 114, 101, 102,
      117, 115, 101, 100>>

\* "broken pipe"
str_broken_pipe == <<98, 114, 111, 107, 101, 110, 32, 112, 105, 112, 101>>

\* "stream closed"
str_stream_closed ==
    <<115, 116, 114, 101, 97, 109, 32, 99, 108, 111, 115, 101, 100>>

\* "connection reset"
str_connection_reset ==
    <<99, 111, 110, 110, 101, 99, 116, 105, 111, 110, 32, 114, 101, 115,
      101, 116>>

\* "timeout"
str_timeout == <<116, 105, 109, 101, 111, 117, 116>>

\* "timed out"
str_timed_out == <<116, 105, 109, 101, 100, 32, 111, 117, 116>>

\* "connect"
str_connect == <<99, 111, 110, 110, 101, 99, 116>>

\* str::contains
Contains(haystack, needle) ==
    \E i \in 1 .. Len(haystack) - Len(needle) + 1 :
        SubSeq(haystack, i, i + Len(needle) - 1) = needle

\* str::to_lowercase on the ASCII range
to_lowercase(s) ==
    [i \in 1 .. Len(s) |-> IF s[i] \in 65 .. 90 THEN s[i] + 32 ELSE s[i]]

\* ------------------------------------------------------------------------
\* The error classification of call_grpc_method
\* ------------------------------------------------------------------------

Classified(error_category, hints) ==
    [error_category |-> error_category, hints |-> hints]

\* a mutant: the case of the error string is ignored in every test
ContainsAnyCase(haystack, needle) ==
    \E i \in 1 .. Len(haystack) - Len(needle) + 1 :
        to_lowercase(SubSeq(haystack, i, i + Len(needle) - 1)) = needle

\* error_str.contains(..) of the classification
ErrorContains(error_str, needle) == Contains(error_str, needle)

\* the (error_category, hints) chosen by the closure given to map_err
Classify(error_str) ==
    IF \/ ErrorContains(error_str, str_certificate)
       \/ ErrorContains(error_str, str_tls)
       \/ ErrorContains(error_str, str_ssl)
    THEN Classified("TLS/Certificate Error",
        <<"Server may require TLS but TLS is not enabled",
          "Server certificate might not be trusted (try 'Insecure Skip Verify' for testing)",
          "Client certificate may be required but not provided",
          "Certificate/key file paths might be incorrect">>)
    ELSE IF ErrorContains(error_str, str_connection_refused)
    THEN Classified("Connection Refused",
        <<"Server may not be running",
          "Check if host and port are correct",
          "Firewall might be blocking the connection">>)
    ELSE IF \/ ErrorContains(error_str, str_broken_pipe)
            \/ ErrorContains(error_str, str_stream_closed)
            \/ ErrorContains(error_str, str_connection_reset)
    THEN Classified("Connection Closed",
        <<"Server closed the connection during handshake",
          "TLS mismatch: server expects TLS but client not using it, or vice versa",
          "Server may have rejected the connection">>)
    ELSE IF \/ ErrorContains(error_str, str_timeout)
            \/ ErrorContains(error_str, str_timed_out)
    THEN Classified("Connection Timeout",
        <<"Server took too long to respond",
          "Network latency or connectivity issues">>)
    ELSE IF Contains(to_lowercase(error_str), str_connect)
    THEN Classified("Connection Error",
        <<"Unable to establish connection to server",
          "Check network connectivity and firewall settings">>)
    ELSE Classified("Error", <<>>)

\* the JSON object of format_error_response (endpoint, service and method
\* are copied from the arguments of the call and left out)
format_error_response(raw_error, error_category, troubleshooting_hints) ==
    [kind |-> "Err",
     json |-> TRUE,
     status |-> "error",
     error |-> raw_error,
     error_category |-> error_category,
     troubleshooting_hints |-> troubleshooting_hints,
     grpc_status |-> str_UNAVAILABLE,
     grpc_message |-> raw_error,
     response |-> None]

\* Err(format!("<text>: {}", e)): a plain string, no JSON
ErrString(text) == [kind |-> "Err", json |-> FALSE, text |-> text]

\* ------------------------------------------------------------------------
\* call_grpc_method: the transport set-up, the request, the response
\* ------------------------------------------------------------------------

\* the failures of the set-up between the URI and the client
SetupErrors ==
    {"Invalid URI",
     "Failed to open certificate file",
     "Failed to parse certificates",
     "Failed to add CA certificate",
     "Failed to open private key file",
     "Failed to parse private key",
     "No private key found",
     "Failed to configure client authentication",
     "Failed to build request"}

\* the words the error strings of the transport are made of: the needles
\* of the classification, some of them in another case, and others
Words ==
    {str_certificate, str_tls, str_ssl, str_connection_refused,
     str_broken_pipe, str_stream_closed, str_connection_reset, str_timeout,
     str_timed_out, str_connect,
     \* "Connection refused"
     <<67, 111, 110, 110, 101, 99, 116, 105, 111, 110, 32, 114, 101,
       102, 117, 115, 101, 100>>,
     \* "TLS"
     <<84, 76, 83>>,
     \* "dns error"
     <<100, 110, 115, 32, 101, 114, 114, 111, 114>>,
     \* "tcp connect error"
     <<116, 99, 112, 32, 99, 111, 110, 110, 101, 99, 116, 32, 101, 114,
       114, 111, 114>>,
     \* "CONNECT"
     <<67, 79, 78, 78, 69, 67, 84>>,
     \* "Timeout"
     <<84, 105, 109, 101, 111, 117, 116>>}

RECURSIVE JoinWords(_)
JoinWords(ws) ==
    IF ws = <<>> THEN <<>>
    ELSE IF Len(ws) = 1 THEN ws[1]
    ELSE ws[1] \o <<32>> \o JoinWords(Tail(ws))

\* e.to_string() of a hyper error
ErrorStrings == {JoinWords(ws) : ws \in SeqsUpTo(Words, MaxWords)}

\* the values of a grpc-status header: "0", "13", and one byte outside ASCII
StatusValues == {str_0, <<49, 51>>, <<255>>}

\* the value of a grpc-message header: "no"
MessageValues == {<<110, 111>>}

OptionOf(S) == {None} \cup {Some(v) : v \in S}

\* the header block of the response
HeaderBlocks ==
    [grpc_status : OptionOf(StatusValues),
     grpc_message : OptionOf(MessageValues)]

\* the trailers of the response: none, OK, or INTERNAL with a message
TrailerBlocks ==
    {NoMetadata,
     [grpc_status |-> Some(str_0), grpc_message |-> None],
     [grpc_status |-> Some(<<49, 51>>), grpc_message |-> Some(<<110, 111>>)]}

\* the compression flags and the payloads of the frames a server sends
Flags == {0, 1}
SentFrames ==
    [compression_flag : Flags, message_bytes : {<<>>, <<0>>, <<1>>}]

\* a frame as the server writes it
WireFrame(f) ==
    <<f.compression_flag>> \o u32_to_be_bytes(Len(f.message_bytes))
        \o f.message_bytes

RECURSIVE Wire(_)
Wire(sent) ==
    IF sent = <<>> THEN <<>> ELSE WireFrame(Head(sent)) \o Wire(Tail(sent))

\* HeaderValue::to_str: Some(text) if every byte is visible ASCII
is_visible_ascii(b) == (b >= 32 /\ b < 127) \/ b = 9
to_str(v) ==
    IF \A i \in 1 .. Len(v) : is_visible_ascii(v[i]) THEN Some(v) ELSE None

\* response.headers().get(name).and_then(|v| v.to_str().ok())
HeaderStr(value) == IF value = None THEN None ELSE to_str(value[1])

\* a mutant: without a grpc-status header the status is "0"
GrpcStatusAssumed(raw, decoded) == IF raw # None THEN raw[1] ELSE str_0

\* grpc_status_raw.unwrap_or_else(|| if decode_success "0" else "unknown")
GrpcStatus(raw, decoded) ==
    IF raw # None THEN raw[1] ELSE IF decoded THEN str_0 ELSE str_unknown

\* the JSON object call_grpc_method returns as Ok (endpoint, service, method,
\* request, response_size, note and timestamp are left out)
Envelope(raw, message, decoded, messages, data) ==
    LET grpc_status == GrpcStatus(raw, decoded) IN
    [kind |-> "Ok",
     json |-> TRUE,
     status |-> IF grpc_status = str_0 THEN "success" ELSE "error",
     grpc_status |-> grpc_status,
     grpc_message |-> message,
     is_streaming |-> is_server_streaming,
     message_count |-> IF is_server_streaming THEN Len(messages) ELSE 1,
     response |-> data]

\* the unary branch: one frame is read if the body holds all of it
UnaryDecode(bytes) ==
    IF Len(bytes) >= 5
    THEN LET message_len == u32_from_be_bytes(SubSeq(bytes, 2, 5)) IN
        IF Len(bytes) >= 5 + message_len
        THEN LET message_bytes == SubSeq(bytes, 6, 5 + message_len) IN
            IF DecodeOk(message_bytes)
            THEN [err |-> FALSE, decode_success |-> TRUE,
                  response_data |-> Some(message_bytes)]
            ELSE [err |-> TRUE, decode_success |-> FALSE,
                  response_data |-> None]
        ELSE [err |-> FALSE, decode_success |-> FALSE, response_data |-> None]
    ELSE [err |-> FALSE, decode_success |-> FALSE, response_data |-> None]

\* the URI, the request and the connector are built; each step may fail
call_grpc_method_Setup(failure) ==
    /\ call_pc = "setup"
    /\ IF failure = "none"
       THEN /\ call_pc' = "request"
            /\ call_ret' = call_ret
       ELSE /\ call_pc' = "returned"
            /\ call_ret' = ErrString(failure)
    /\ UNCHANGED <<is_server_streaming, server, grpc_status_raw,
                   grpc_message, decode_success, response_data>>
    /\ UNCHANGED <<registryVars, callerVars, ret, streamVars, decoderVars,
                   codecVars, taskVars, setupVars>>

\* client.request(req).await is Err(e): the error is classified
client_request_Err(error_str) ==
    /\ call_pc = "request"
    /\ call_pc' = "returned"
    /\ server' = [server EXCEPT !.error = Some(error_str)]
    /\ LET c == Classify(error_str) IN
        call_ret' = format_error_response(error_str, c.error_category,
                                          c.hints)
    /\ UNCHANGED <<is_server_streaming, grpc_status_raw, grpc_message,
                   decode_success, response_data>>
    /\ UNCHANGED <<registryVars, callerVars, ret, streamVars, decoderVars,
                   codecVars, taskVars, setupVars>>

\* client.request(req).await is Ok(response): grpc-status and grpc-message
\* are taken from the header block; the server goes on to send the frames
\* of `sent`
client_request_Ok(headers, sent) ==
    /\ call_pc = "request"
    /\ call_pc' = IF is_server_streaming THEN "next" ELSE "to_bytes"
    /\ server' = [server EXCEPT !.headers = headers, !.sent = sent]
    /\ body_stream' = Wire(sent)
    /\ grpc_status_raw' = HeaderStr(headers.grpc_status)
    /\ grpc_message' =
        LET m == HeaderStr(headers.grpc_message) IN
        IF m = None THEN <<>> ELSE m[1]
    /\ UNCHANGED <<is_server_streaming, decode_success, response_data,
                   call_ret>>
    /\ UNCHANGED <<d_pc, is_bidirectional, frames_sent, buffer,
                   message_index, events, response_messages>>
    /\ UNCHANGED <<registryVars, callerVars, ret, streamVars, codecVars,
                   taskVars, setupVars>>

\* hyper::body::to_bytes is Ok: the body ended after n bytes, the trailers
\* followed; the single frame is decoded and the envelope returned
to_bytes_Ok(n, trailers) ==
    /\ call_pc = "to_bytes"
    /\ n <= Len(body_stream)
    /\ call_pc' = "returned"
    /\ LET bytes == SubSeq(body_stream, 1, n)
           r == UnaryDecode(bytes)
       IN
        /\ server' = [server EXCEPT !.body = bytes, !.trailers = trailers]
        /\ body_stream' = SubSeq(body_stream, n + 1, Len(body_stream))
        /\ decode_success' = r.decode_success
        /\ response_data' = r.response_data
        /\ call_ret' =
            IF r.err THEN ErrString("Failed to decode response protobuf")
            ELSE Envelope(grpc_status_raw, grpc_message, r.decode_success,
                          response_messages, r.response_data)
    /\ UNCHANGED <<is_server_streaming, grpc_status_raw, grpc_message>>
    /\ UNCHANGED <<d_pc, is_bidirectional, frames_sent, buffer,
                   message_index, events, response_messages>>
    /\ UNCHANGED <<registryVars, callerVars, ret, streamVars, codecVars,
                   taskVars, setupVars>>

\* hyper::body::to_bytes is Err
to_bytes_Err ==
    /\ call_pc = "to_bytes"
    /\ call_pc' = "returned"
    /\ call_ret' = ErrString("Failed to read response")
    /\ UNCHANGED <<is_server_streaming, server, grpc_status_raw,
                   grpc_message, decode_success, response_data>>
    /\ UNCHANGED <<registryVars, callerVars, ret, streamVars, decoderVars,
                   codecVars, taskVars, setupVars>>

\* body_stream.next() is Some(Ok(chunk)): the next n bytes of the body; the
\* complete frames of the buffer are decoded, emitted and collected
next_Chunk(n) ==
    /\ call_pc = "next"
    /\ n <= Len(body_stream)
    /\ LET chunk == SubSeq(body_stream, 1, n)
           r == ServerStreamFrames(extend_from_slice(buffer, chunk),
                                   message_index, events,
                                   response_messages)
       IN
        /\ server' = [server EXCEPT !.body = @ \o chunk]
        /\ body_stream' = SubSeq(body_stream, n + 1, Len(body_stream))
        /\ buffer' = r.buffer
        /\ message_index' = r.message_index
        /\ events' = r.events
        /\ response_messages' = r.response_messages
        /\ decode_success' = (decode_success \/ r.response_messages # <<>>)
        /\ IF r.err
           THEN /\ call_pc' = "returned"
                /\ call_ret' =
                    ErrString("Failed to decode response protobuf frame")
           ELSE /\ call_pc' = "next"
                /\ call_ret' = call_ret
    /\ UNCHANGED <<is_server_streaming, grpc_status_raw, grpc_message,
                   response_data>>
    /\ UNCHANGED <<d_pc, is_bidirectional, frames_sent>>
    /\ UNCHANGED <<registryVars, callerVars, ret, streamVars, codecVars,
                   taskVars, setupVars>>

\* body_stream.next() is None: the body ended, the trailers followed; the
\* messages collected are the response of the envelope
next_None(trailers) ==
    /\ call_pc = "next"
    /\ call_pc' = "returned"
    /\ server' = [server EXCEPT !.trailers = trailers]
    /\ response_data' = Some(response_messages)
    /\ call_ret' = Envelope(grpc_status_raw, grpc_message, decode_success,
                            response_messages, Some(response_messages))
    /\ UNCHANGED <<is_server_streaming, grpc_status_raw, grpc_message,
                   decode_success>>
    /\ UNCHANGED <<registryVars, callerVars, ret, streamVars, decoderVars,
                   codecVars, taskVars, setupVars>>

\* a mutant: a read error ends the loop as the end of the body does
ReadErrorAsEnd(raw, message, decoded, messages) ==
    Envelope(raw, message, decoded, messages, Some(messages))

\* return Err(format!("Failed to read response stream: {}", e)), whatever
\* the call has read and decoded so far
ReadError(raw, message, decoded, messages) ==
    ErrString("Failed to read response stream")

\* body_stream.next() is Some(Err(e))
next_Err ==
    /\ call_pc = "next"
    /\ call_pc' = "returned"
    /\ call_ret' = ReadError(grpc_status_raw, grpc_message, decode_success,
                            response_messages)
    /\ UNCHANGED <<is_server_streaming, server, grpc_status_raw,
                   grpc_message, decode_success, response_data>>
    /\ UNCHANGED <<registryVars, callerVars, ret, streamVars, decoderVars,
                   codecVars, taskVars, setupVars>>

\* the request is framed; the method is unary or server streaming
CallInit ==
    /\ RegistryIdle
    /\ DecoderIdle
    /\ CodecIdle
    /\ StreamIdle
    /\ SetupIdle
    /\ call_pc = "setup"
    /\ is_server_streaming \in BOOLEAN
    /\ server = NoServer
    /\ grpc_status_raw = None
    /\ grpc_message = <<>>
    /\ decode_success = FALSE
    /\ response_data = None
    /\ call_ret = NotReturned

CallNext ==
    \/ \E failure \in SetupErrors \cup {"none"} :
          call_grpc_method_Setup(failure)
    \/ \E error_str \in ErrorStrings : client_request_Err(error_str)
    \/ \E headers \in HeaderBlocks, sent \in SeqsUpTo(SentFrames, MaxSent) :
          client_request_Ok(headers, sent)
    \/ \E n \in 0 .. Len(body_stream), trailers \in TrailerBlocks :
          to_bytes_Ok(n, trailers)
    \/ to_bytes_Err
    \/ \E n \in 1 .. MaxChunk : next_Chunk(n)
    \/ \E trailers \in TrailerBlocks : next_None(trailers)
    \/ next_Err

CallSpec == CallInit /\ [][CallNext]_vars

\* ------------------------------------------------------------------------
\* Properties of call_grpc_method
\* ------------------------------------------------------------------------

Returned == call_pc = "returned"
ReturnedOk == Returned /\ call_ret.kind = "Ok"

\* frames decoded into response data so far
Decoded ==
    IF is_server_streaming THEN Len(response_messages)
    ELSE IF decode_success THEN 1 ELSE 0

\* the k-th frame the server sent has arrived whole
FrameDelivered(k) ==
    Len(Wire(SubSeq(server.sent, 1, k))) <= Len(server.body)

\* C11: a received frame with a non-zero compression flag is not decoded:
\* it produces neither response data nor a stream-message event, and the
\* call that reads it returns an error.
C11_CompressedFrameIsError ==
    \A k \in 1 .. Len(server.sent) :
        server.sent[k].compression_flag # 0 =>
            /\ Decoded < k
            /\ Len(events) < k
            /\ (Returned /\ FrameDelivered(k)
                    /\ (is_server_streaming \/ k = 1))
                    => call_ret.kind = "Err"

RECURSIVE EndsMidFrame(_)
\* the bytes end inside a frame: in its header or in its payload
EndsMidFrame(bytes) ==
    IF bytes = <<>> THEN FALSE
    ELSE IF Len(bytes) < 5 THEN TRUE
    ELSE LET n == bytes[2] * 16777216 + bytes[3] * 65536 + bytes[4] * 256
                    + bytes[5]
         IN IF Len(bytes) < 5 + n THEN TRUE
            ELSE EndsMidFrame(SubSeq(bytes, 6 + n, Len(bytes)))

\* C12: a response body that ends in the middle of a frame is fatal: the
\* call returns neither a unary envelope with status "success" nor a
\* streaming summary of a success.
C12_TruncationIsFatal ==
    (Returned /\ EndsMidFrame(server.body)) =>
        ~(call_ret.kind = "Ok" /\ call_ret.status = "success")

\* a header value HeaderValue::to_str accepts
Readable(v) == \A i \in 1 .. Len(v) : v[i] = 9 \/ v[i] \in 32 .. 126

UnaryEnvelope == ReturnedOk /\ ~is_server_streaming

\* C13 as the specification words it: status is "success" iff grpc_status
\* is "0" or the header is absent and a frame was decoded; an absent header
\* gives "0" with a decoded frame and "unknown" with an empty body; a
\* header that is present gives its value.
C13_StatusFromHeaderAsSent ==
    UnaryEnvelope =>
        LET sent_status == server.headers.grpc_status IN
        /\ call_ret.status = "success" <=>
              \/ call_ret.grpc_status = str_0
              \/ sent_status = None /\ Decoded = 1
        /\ sent_status = None =>
              /\ Decoded = 1 => call_ret.grpc_status = str_0
              /\ server.body = <<>> => call_ret.grpc_status = str_unknown
        /\ sent_status # None => call_ret.grpc_status = sent_status[1]

\* C13, amended: the same with "absent" read as "absent or not readable as
\* visible ASCII" and "present" as "present and readable"; without a
\* readable header the status is "0" exactly if a frame was decoded and
\* "unknown" otherwise.
C13_StatusFromReadableHeader ==
    UnaryEnvelope =>
        LET sent_status == server.headers.grpc_status
            readable == sent_status # None /\ Readable(sent_status[1])
        IN
        /\ call_ret.status = "success" <=>
              \/ call_ret.grpc_status = str_0
              \/ ~readable /\ Decoded = 1
        /\ call_ret.status \in {"success", "error"}
        /\ ~readable =>
              /\ Decoded = 1 => call_ret.grpc_status = str_0
              /\ Decoded = 0 => call_ret.grpc_status = str_unknown
              /\ server.body = <<>> => Decoded = 0
        /\ readable => call_ret.grpc_status = sent_status[1]

\* a unary call answered with an unreadable grpc-status header and one
\* decodable frame returns the envelope of a success
C13_Witness ==
    /\ UnaryEnvelope
    /\ server.headers.grpc_status = Some(<<255>>)
    /\ Decoded = 1
    /\ call_ret.status = "success"
    /\ call_ret.grpc_status = str_0

\* C14: the grpc-status and grpc-message of the trailers are what the
\* envelope reports; a trailer status other than "0" gives status "error",
\* also after a frame was decoded.
C14_TrailersConsumed ==
    (ReturnedOk /\ server.trailers.grpc_status # None) =>
        /\ call_ret.grpc_status = server.trailers.grpc_status[1]
        /\ server.trailers.grpc_message # None =>
              call_ret.grpc_message = server.trailers.grpc_message[1]
        /\ server.trailers.grpc_status[1] # str_0 =>
              call_ret.status = "error"

C15_SummaryState ==
    (ReturnedOk /\ is_server_streaming) =>
        /\ call_ret.response # None
        /\ LET response == call_ret.response[1] IN
            /\ call_ret.message_count = Len(events)
            /\ call_ret.message_count = Len(response)
            /\ \A i \in 1 .. Len(events) :
                  /\ events[i].index = i - 1
                  /\ response[i] = events[i].data

C15_SummaryStep == Returned => events' = events

\* C15: the summary envelope of a server-streaming call counts the events
\* emitted, its response array has that length and holds at i the data of
\* the event with index i; no event is emitted once the call has returned.
C15_SummaryMatchesEvents == []C15_SummaryState /\ [][C15_SummaryStep]_vars

\* a summary of two different messages
C15_Witness ==
    /\ ReturnedOk
    /\ is_server_streaming
    /\ call_ret.message_count = 2
    /\ events[1].data # events[2].data

\* the error strings of the decoding steps, which are no transport errors
TranscodingErrors ==
    {"Failed to decode response protobuf",
     "Failed to decode response protobuf frame"}

\* C19: a transport error (URI, TLS set-up, request build, connection,
\* response read) is returned as a structured envelope with status
\* "error", a category, hints and the raw error, never as a bare string.
C19_TransportErrorsStructured ==
    (Returned /\ call_ret.kind = "Err"
        /\ (call_ret.json \/ call_ret.text \notin TranscodingErrors)) =>
        /\ call_ret.json
        /\ call_ret.status = "error"
        /\ call_ret.error = server.error[1]

\* text occurs in s as it is written
Occurs(text, s) ==
    \E i \in 0 .. Len(s) - Len(text) :
        \A j \in 1 .. Len(text) : s[i + j] = text[j]

\* text occurs in s, upper case letters of s taken as lower case
OccursAnyCase(text, s) ==
    \E i \in 0 .. Len(s) - Len(text) :
        \A j \in 1 .. Len(text) :
            \/ s[i + j] = text[j]
            \/ s[i + j] \in 65 .. 90 /\ s[i + j] + 32 = text[j]

\* the category by first match, in the order of the specification
CategoryByFirstMatch(s) ==
    CASE Occurs(str_certificate, s) \/ Occurs(str_tls, s)
            \/ Occurs(str_ssl, s) -> "TLS/Certificate Error"
      [] Occurs(str_connection_refused, s) -> "Connection Refused"
      [] Occurs(str_broken_pipe, s) \/ Occurs(str_stream_closed, s)
            \/ Occurs(str_connection_reset, s) -> "Connection Closed"
      [] Occurs(str_timeout, s) \/ Occurs(str_timed_out, s) ->
            "Connection Timeout"
      [] OccursAnyCase(str_connect, s) -> "Connection Error"
      [] OTHER -> "Error"

\* C20: every error string gets exactly one of the six categories, the
\* first that matches in the order TLS/Certificate Error, Connection
\* Refused, Connection Closed, Connection Timeout, Connection Error, Error;
\* a category always comes with the same hints (those it has for the
\* single words of the vocabulary); the envelope's error field is the raw
\* string.
C20_ClassifierTotal ==
    (Returned /\ server.error # None) =>
        LET error_str == server.error[1] IN
        /\ call_ret.kind = "Err"
        /\ call_ret.json
        /\ call_ret.error = error_str
        /\ call_ret.error_category = CategoryByFirstMatch(error_str)
        /\ \A other \in Words \cup {<<>>} :
              Classify(other).error_category = call_ret.error_category =>
                  Classify(other).hints = call_ret.troubleshooting_hints
        /\ \E other \in Words \cup {<<>>} :
              Classify(other).error_category = call_ret.error_category

\* "Connection refused timeout" is no Connection Refused (the case differs)
\* but a Connection Timeout, with the two hints of that category
C20_Witness ==
    /\ Returned
    /\ server.error =
          Some(<<67>> \o Tail(str_connection_refused) \o <<32>>
                  \o str_timeout)
    /\ call_ret.error_category = "Connection Timeout"
    /\ Len(call_ret.troubleshooting_hints) = 2

\* ------------------------------------------------------------------------
\* The stream registry: a send after the task has ended
\* ------------------------------------------------------------------------

SendPcs == {"send_lock", "send_cs", "send_push"}

NoSendInFlight == \A c \in Callers : pc[c] \notin SendPcs

\* the step just taken returned "Message <id> sent" for a frame of stream s
SentTo(s) == ret.op = "send" /\ ret.val = "sent" /\ ret.stream = s

\* the task of s has ended, the entry of s is still in the registry, and
\* no send_stream_message is under way or has just returned
TerminatedWithEntry(s) ==
    /\ task[s] = "done"
    /\ TabsOf(s) # {}
    /\ NoSendInFlight
    /\ ~SentTo(s)

\* C17: once the background task of a stream has terminated while its entry
\* is in the registry, no send that starts afterwards reports "sent".
C17_SendFailsAfterTaskExit ==
    \A s \in Streams : [](TerminatedWithEntry(s) => [](~SentTo(s)))

\* ------------------------------------------------------------------------
\* One stream: start_client_stream, its background task, finish_streaming
\* ------------------------------------------------------------------------

\* the kinds of method a service descriptor can hold
Methods == {"unary", "server_streaming", "client_streaming", "bidirectional"}

\* method_desc.is_client_streaming()
ClientStreaming(kind) == kind \in {"client_streaming", "bidirectional"}

\* method_desc.is_server_streaming()
ServerStreaming(kind) == kind \in {"server_streaming", "bidirectional"}

\* is_bidirectional, the only use start_client_stream makes of the kind
Bidirectional(kind) == ClientStreaming(kind) /\ ServerStreaming(kind)

\* Ok(json) of the task; response is None in the completion envelope of a
\* bidirectional stream, which has no response field
TaskOk(message, response) ==
    [kind |-> "Ok", grpc_status |-> str_0, grpc_message |-> "OK",
     message |-> message, response |-> response]

\* the bidirectional branch returns its completion envelope whatever the
\* loop has logged
BidiResult == TaskOk("Bidirectional stream completed", None)

\* the client-streaming branch decodes the single frame of the body
ClientResult(bytes) ==
    IF Len(bytes) < 5 THEN ErrString("Response too short")
    ELSE LET message_len == u32_from_be_bytes(SubSeq(bytes, 2, 5)) IN
        IF Len(bytes) < 5 + message_len
        THEN ErrString("Incomplete response")
        ELSE LET message_bytes == SubSeq(bytes, 6, 5 + message_len) IN
            IF DecodeOk(message_bytes)
            THEN TaskOk("", Some(message_bytes))
            ELSE ErrString("Failed to decode response")

\* the proto does not compile, names no such service or method, or the
\* endpoint gives no URI: Err, before a channel or a task exists
open_stream_Reject ==
    /\ open_pc = "start"
    /\ open_pc' = "rejected"
    /\ UNCHANGED <<method_desc, task_pc, task_failure, task_result,
                   finish_result>>
    /\ UNCHANGED <<registryVars, callerVars, ret, streamVars, decoderVars,
                   codecVars, callVars, setupVars>>

\* the method is found and taken whatever its kind: the channels are made,
\* the task is spawned, the entry is inserted, "Stream opened" is returned
open_stream_Spawn ==
    /\ open_pc = "start"
    /\ open_pc' = "opened"
    /\ task_pc' = "build"
    /\ UNCHANGED <<method_desc, task_failure, task_result, finish_result>>
    /\ UNCHANGED <<registryVars, callerVars, ret, streamVars, decoderVars,
                   codecVars, callVars, setupVars>>

\* let _ = response_tx.send(result)
StreamTaskExit(r) ==
    /\ task_pc' = "done"
    /\ task_result' = r

\* the request is built, the client made, sender_task spawned
stream_task_Build(built) ==
    /\ task_pc = "build"
    /\ IF built
       THEN /\ task_pc' = "await_resp"
            /\ UNCHANGED <<task_failure, task_result>>
       ELSE /\ StreamTaskExit(ErrString("Failed to build request"))
            /\ task_failure' = "build"
    /\ UNCHANGED <<open_pc, method_desc, finish_result>>
    /\ UNCHANGED <<registryVars, callerVars, ret, streamVars, decoderVars,
                   codecVars, callVars, setupVars>>

\* response_future.await is Err
stream_task_Response_Err ==
    /\ task_pc = "await_resp"
    /\ StreamTaskExit(ErrString("gRPC call failed"))
    /\ task_failure' = "connection"
    /\ UNCHANGED <<open_pc, method_desc, finish_result>>
    /\ UNCHANGED <<registryVars, callerVars, ret, streamVars, decoderVars,
                   codecVars, callVars, setupVars>>

\* response_future.await is Ok: the server goes on to send the frames of
\* `sent`; a bidirectional stream reads them as they come, a client stream
\* first waits for sender_task
stream_task_Response_Ok(sent) ==
    /\ task_pc = "await_resp"
    /\ task_pc' = IF Bidirectional(method_desc) THEN "next" ELSE "join"
    /\ server' = [server EXCEPT !.sent = sent]
    /\ body_stream' = Wire(sent)
    /\ UNCHANGED <<open_pc, method_desc, task_failure, task_result,
                   finish_result>>
    /\ UNCHANGED <<call_pc, is_server_streaming, grpc_status_raw,
                   grpc_message, decode_success, response_data, call_ret>>
    /\ UNCHANGED <<d_pc, is_bidirectional, frames_sent, buffer,
                   message_index, events, response_messages>>
    /\ UNCHANGED <<registryVars, callerVars, ret, streamVars, codecVars, setupVars>>

\* body_stream.next() is Some(Ok(chunk)): the complete frames of the buffer
\* are decoded and emitted; a frame that does not decode is logged
bidi_next_Chunk(n) ==
    /\ task_pc = "next"
    /\ n <= Len(body_stream)
    /\ LET chunk == SubSeq(body_stream, 1, n)
           r == BidiStreamFrames(extend_from_slice(buffer, chunk),
                                 message_index, events)
       IN
        /\ server' = [server EXCEPT !.body = @ \o chunk]
        /\ body_stream' = SubSeq(body_stream, n + 1, Len(body_stream))
        /\ buffer' = r.buffer
        /\ message_index' = r.message_index
        /\ events' = r.events
    /\ UNCHANGED taskVars
    /\ UNCHANGED <<call_pc, is_server_streaming, grpc_status_raw,
                   grpc_message, decode_success, response_data, call_ret>>
    /\ UNCHANGED <<d_pc, is_bidirectional, frames_sent, response_messages>>
    /\ UNCHANGED <<registryVars, callerVars, ret, streamVars, codecVars, setupVars>>

\* body_stream.next() is None: the loop ends
bidi_next_None ==
    /\ task_pc = "next"
    /\ task_pc' = "join"
    /\ UNCHANGED <<open_pc, method_desc, task_failure, task_result,
                   finish_result>>
    /\ UNCHANGED <<registryVars, callerVars, ret, streamVars, decoderVars,
                   codecVars, callVars, setupVars>>

\* body_stream.next() is Some(Err(e)): logged, the loop breaks
bidi_next_Err ==
    /\ task_pc = "next"
    /\ task_pc' = "join"
    /\ task_failure' = "read"
    /\ UNCHANGED <<open_pc, method_desc, task_result, finish_result>>
    /\ UNCHANGED <<registryVars, callerVars, ret, streamVars, decoderVars,
                   codecVars, callVars, setupVars>>

\* sender_task.await returns once finish_streaming has dropped the sender
\* (no message is sent on this stream, so no send_data fails before that);
\* a bidirectional stream then returns its completion envelope
bidi_Join ==
    /\ task_pc = "join"
    /\ Bidirectional(method_desc)
    /\ open_pc = "finishing"
    /\ StreamTaskExit(BidiResult)
    /\ UNCHANGED <<open_pc, method_desc, task_failure, finish_result>>
    /\ UNCHANGED <<registryVars, callerVars, ret, streamVars, decoderVars,
                   codecVars, callVars, setupVars>>

\* sender_task.await, then hyper::body::to_bytes is Ok with the n bytes the
\* body had when it ended, and the single frame is decoded
client_to_bytes_Ok(n) ==
    /\ task_pc = "join"
    /\ ~Bidirectional(method_desc)
    /\ open_pc = "finishing"
    /\ n <= Len(body_stream)
    /\ LET bytes == SubSeq(body_stream, 1, n) IN
        /\ server' = [server EXCEPT !.body = bytes]
        /\ body_stream' = SubSeq(body_stream, n + 1, Len(body_stream))
        /\ StreamTaskExit(ClientResult(bytes))
        /\ task_failure' =
            IF n >= 5 /\ n >= 5 + u32_from_be_bytes(SubSeq(bytes, 2, 5))
                 /\ ClientResult(bytes).kind = "Err"
            THEN "decode" ELSE task_failure
    /\ UNCHANGED <<open_pc, method_desc, finish_result>>
    /\ UNCHANGED <<call_pc, is_server_streaming, grpc_status_raw,
                   grpc_message, decode_success, response_data, call_ret>>
    /\ UNCHANGED <<d_pc, is_bidirectional, frames_sent, buffer,
                   message_index, events, response_messages>>
    /\ UNCHANGED <<registryVars, callerVars, ret, streamVars, codecVars, setupVars>>

\* sender_task.await, then hyper::body::to_bytes is Err
client_to_bytes_Err ==
    /\ task_pc = "join"
    /\ ~Bidirectional(method_desc)
    /\ open_pc = "finishing"
    /\ StreamTaskExit(ErrString("Failed to read response"))
    /\ task_failure' = "read"
    /\ UNCHANGED <<open_pc, method_desc, finish_result>>
    /\ UNCHANGED <<registryVars, callerVars, ret, streamVars, decoderVars,
                   codecVars, callVars, setupVars>>

\* streams.remove(&tab_id), drop(stream.sender)
finish_stream_Remove ==
    /\ open_pc = "opened"
    /\ open_pc' = "finishing"
    /\ UNCHANGED <<method_desc, task_pc, task_failure, task_result,
                   finish_result>>
    /\ UNCHANGED <<registryVars, callerVars, ret, streamVars, decoderVars,
                   codecVars, callVars, setupVars>>

\* response_receiver.await, then return the result of the task
finish_stream_Await ==
    /\ open_pc = "finishing"
    /\ task_pc = "done"
    /\ open_pc' = "finished"
    /\ finish_result' = Received(task_result)
    /\ UNCHANGED <<method_desc, task_pc, task_failure, task_result>>
    /\ UNCHANGED <<registryVars, callerVars, ret, streamVars, decoderVars,
                   codecVars, callVars, setupVars>>

\* the host calls start_client_stream for a method of some kind
StreamInit ==
    /\ RegistryIdle
    /\ DecoderIdle
    /\ CodecIdle
    /\ CallIdle
    /\ SetupIdle
    /\ open_pc = "start"
    /\ method_desc \in Methods
    /\ task_pc = "none"
    /\ task_failure = "none"
    /\ task_result = NotReturned
    /\ finish_result = NotReturned

StreamNext ==
    \/ open_stream_Reject
    \/ open_stream_Spawn
    \/ \E built \in BOOLEAN : stream_task_Build(built)
    \/ stream_task_Response_Err
    \/ \E sent \in SeqsUpTo(SentFrames, MaxSent) :
          stream_task_Response_Ok(sent)
    \/ \E n \in 1 .. MaxChunk : bidi_next_Chunk(n)
    \/ bidi_next_None
    \/ bidi_next_Err
    \/ bidi_Join
    \/ \E n \in 0 .. 2 * MaxChunk : client_to_bytes_Ok(n)
    \/ client_to_bytes_Err
    \/ finish_stream_Remove
    \/ finish_stream_Await

StreamSpec == StreamInit /\ [][StreamNext]_vars

\* ------------------------------------------------------------------------
\* Properties of one stream
\* ------------------------------------------------------------------------

\* a frame of the response arrived whole and did not decode
UndecodableFrameRead ==
    \E k \in 1 .. Len(server.sent) :
        /\ FrameDelivered(k)
        /\ ~DecodeOk(server.sent[k].message_bytes)
        /\ Bidirectional(method_desc) \/ k = 1

\* the task ran into a request build failure, a connection failure, a
\* response-body read error or a response decode failure
TaskFailed == task_failure # "none" \/ UndecodableFrameRead

\* C16: a failure of the background task is surfaced by finish_streaming
\* as an error: what finish returns is an Err if the task failed, and has
\* grpc_status "0" only if the task ran without a failure.
C16_TaskFailureSurfaced ==
    open_pc = "finished" =>
        /\ TaskFailed => finish_result.kind = "Err"
        /\ (finish_result.kind = "Ok" /\ finish_result.grpc_status = str_0)
              => ~TaskFailed

\* C18: start_client_stream for a method that is not client-streaming
\* returns an error, leaves the registry without an entry and spawns no
\* task.
C18_OpenRequiresStreamingMethod ==
    (open_pc # "off" /\ ~ClientStreaming(method_desc)) =>
        /\ open_pc \in {"start", "rejected"}
        /\ task_pc = "none"

\* ------------------------------------------------------------------------
\* The unary call: a refused connection
\* ------------------------------------------------------------------------

\* "Connection refused", as the operating system words ECONNREFUSED
str_os_refused == <<67>> \o Tail(str_connection_refused)

\* the transport reports a refused connection, and nothing about TLS
RefusedReported(error_str) ==
    /\ Contains(error_str, str_os_refused)
    /\ ~OccursAnyCase(str_certificate, error_str)
    /\ ~OccursAnyCase(str_tls, error_str)
    /\ ~OccursAnyCase(str_ssl, error_str)

\* C21: a unary call whose connection attempt is refused (the transport's
\* message holds "Connection refused") returns an envelope with status
\* "error", error_category "Connection Refused", a non-empty hint list and
\* response null.
C21_RefusedIsConnectionRefused ==
    (Returned /\ server.error # None /\ RefusedReported(server.error[1])) =>
        /\ call_ret.kind = "Err"
        /\ call_ret.json
        /\ call_ret.status = "error"
        /\ call_ret.error_category = "Connection Refused"
        /\ call_ret.troubleshooting_hints # <<>>
        /\ call_ret.response = None

\* ------------------------------------------------------------------------
\* The header assembly of call_grpc_method and start_client_stream
\* ------------------------------------------------------------------------

\* "content-type"
str_content_type ==
    <<99, 111, 110, 116, 101, 110, 116, 45, 116, 121, 112, 101>>
\* "te"
str_te == <<116, 101>>
\* "authorization"
str_authorization ==
    <<97, 117, 116, 104, 111, 114, 105, 122, 97, 116, 105, 111, 110>>
\* "Authorization"
str_Authorization ==
    <<65, 117, 116, 104, 111, 114, 105, 122, 97, 116, 105, 111, 110>>
\* "x-api-key"
str_x_api_key == <<120, 45, 97, 112, 105, 45, 107, 101, 121>>
\* "x-trace"
str_x_trace == <<120, 45, 116, 114, 97, 99, 101>>
\* "bad key"
str_bad_key == <<98, 97, 100, 32, 107, 101, 121>>

\* the bytes http::header::HeaderName accepts: the token characters
TokenChars ==
    {33, 35, 36, 37, 38, 39, 42, 43, 45, 46, 94, 95, 96, 124, 126}
        \cup (48 .. 57) \cup (65 .. 90) \cup (97 .. 122)

\* HeaderName::try_from(key): a token, taken to lower case; None for a key
\* that is no token
HeaderName(key) ==
    IF key # <<>> /\ \A i \in 1 .. Len(key) : key[i] \in TokenChars
    THEN Some(to_lowercase(key))
    ELSE None

\* HttpRequest::builder(): no header yet
NewBuilder == [kind |-> "Ok", headers |-> <<>>]

\* HeaderMap::append: the value is added to those the name has
HeaderAppended(headers, entry) == Append(headers, entry)

\* Builder::header(key, value): an error of the builder is kept; a key that
\* is no header name makes the builder an error; the value is appended
header(builder, key, value) ==
    IF builder.kind = "Err" THEN builder
    ELSE IF HeaderName(key) = None THEN [kind |-> "Err"]
    ELSE [builder EXCEPT !.headers =
            HeaderAppended(@, [name |-> HeaderName(key)[1],
                               value |-> value])]

\* general_purpose::STANDARD.encode(credentials.as_bytes())
STANDARD_encode(credentials) == <<"base64">> \o credentials

AuthConfig(auth_type, token, username, password, key, value) ==
    [auth_type |-> auth_type, token |-> token, username |-> username,
     password |-> password, key |-> key, value |-> value]

\* the auth argument of a command
AuthConfigs ==
    {None,
     Some(AuthConfig("none", None, None, None, None, None)),
     Some(AuthConfig("bearer", Some("token"), None, None, None, None)),
     Some(AuthConfig("bearer", None, None, None, None, None)),
     Some(AuthConfig("basic", None, Some("user"), Some("pass"), None, None)),
     Some(AuthConfig("basic", None, Some("user"), None, None, None)),
     Some(AuthConfig("apiKey", None, None, None, Some(str_x_api_key),
                     Some("secret"))),
     Some(AuthConfig("apiKey", None, None, None, Some(str_authorization),
                     Some("secret"))),
     Some(AuthConfig("apiKey", None, None, None, None, Some("secret")))}

\* the keys of the user's metadata
MetadataKeys ==
    {str_content_type, str_te, str_authorization, str_Authorization,
     str_x_api_key, str_x_trace, str_bad_key}

\* the value the user gives a metadata key
MetadataValue == <<"user value">>

\* the metadata argument of a command: None, or a HashMap of up to MaxMeta
\* entries
Metadatas ==
    {None} \cup
    {Some([k \in keys |-> MetadataValue]) :
        keys \in {ks \in SUBSET MetadataKeys : Cardinality(ks) <= MaxMeta}}

\* the match on auth_config.auth_type
with_auth(builder, auth_config) ==
    IF auth_config.auth_type = "bearer" /\ auth_config.token # None
    THEN header(builder, str_authorization,
                <<"Bearer ", auth_config.token[1]>>)
    ELSE IF /\ auth_config.auth_type = "basic"
            /\ auth_config.username # None
            /\ auth_config.password # None
    THEN header(builder, str_authorization,
                <<"Basic ">> \o STANDARD_encode(
                    <<auth_config.username[1], ":",
                      auth_config.password[1]>>))
    ELSE IF /\ auth_config.auth_type = "apiKey"
            /\ auth_config.key # None
            /\ auth_config.value # None
    THEN header(builder, auth_config.key[1], <<auth_config.value[1]>>)
    ELSE builder

\* HttpRequest::builder().method("POST").uri(uri)
\*     .header("content-type", "application/grpc").header("te", "trailers")
builder_new ==
    /\ hdr_pc = "new"
    /\ hdr_pc' = "auth"
    /\ req_builder' =
        header(header(NewBuilder, str_content_type, <<"application/grpc">>),
               str_te, <<"trailers">>)
    /\ UNCHANGED <<auth, metadata, entries, req>>
    /\ UNCHANGED headerFrame

\* if let Some(auth_config) = auth { match .. }
add_auth ==
    /\ hdr_pc = "auth"
    /\ hdr_pc' = "metadata"
    /\ req_builder' =
        IF auth = None THEN req_builder ELSE with_auth(req_builder, auth[1])
    /\ entries' = IF metadata = None THEN {} ELSE DOMAIN metadata[1]
    /\ UNCHANGED <<auth, metadata, req>>
    /\ UNCHANGED headerFrame

\* one iteration of for (key, value) in meta: a HashMap yields its entries
\* in an order of its own
add_metadata(key) ==
    /\ hdr_pc = "metadata"
    /\ key \in entries
    /\ req_builder' = header(req_builder, key, metadata[1][key])
    /\ entries' = entries \ {key}
    /\ UNCHANGED <<hdr_pc, auth, metadata, req>>
    /\ UNCHANGED headerFrame

\* req_builder.body(..).map_err(..)
req_builder_body ==
    /\ hdr_pc = "metadata"
    /\ entries = {}
    /\ hdr_pc' = "built"
    /\ req' = IF req_builder.kind = "Err"
              THEN ErrString("Failed to build request")
              ELSE req_builder
    /\ UNCHANGED <<auth, metadata, entries, req_builder>>
    /\ UNCHANGED headerFrame

\* a command is called with some auth and some metadata
HeaderInit ==
    /\ RuntimeIdle
    /\ PathIdle
    /\ SampleIdle
    /\ SurfaceIdle
    /\ FilesIdle
    /\ TlsIdle
    /\ hdr_pc = "new"
    /\ auth \in AuthConfigs
    /\ metadata \in Metadatas
    /\ entries = {}
    /\ req_builder = NotReturned
    /\ req = NotReturned

HeaderNext ==
    \/ builder_new
    \/ add_auth
    \/ \E key \in MetadataKeys : add_metadata(key)
    \/ req_builder_body

HeaderSpec == HeaderInit /\ [][HeaderNext]_vars

\* ------------------------------------------------------------------------
\* Properties of the header assembly
\* ------------------------------------------------------------------------

Built == hdr_pc = "built" /\ req.kind = "Ok"

\* the values the request carries for a header name
ValuesOf(name) ==
    {req.headers[i].value :
        i \in {j \in 1 .. Len(req.headers) : req.headers[j].name = name}}

\* the header names set before the metadata: content-type, te and that of
\* the auth header
EarlierNames ==
    LET builder == IF auth = None THEN NewBuilder
                   ELSE with_auth(NewBuilder, auth[1])
    IN {str_content_type, str_te}
          \cup {builder.headers[i].name : i \in 1 .. Len(builder.headers)}

\* C22: later entries win on duplicate keys: the request carries at most
\* one value for every header name, and for a metadata key that equals a
\* name set earlier it carries the metadata value and not the earlier one.
C22_LaterHeaderWins ==
    Built =>
        /\ \A i, j \in 1 .. Len(req.headers) :
              req.headers[i].name = req.headers[j].name => i = j
        /\ metadata # None =>
              \A key \in DOMAIN metadata[1] :
                  key \in EarlierNames =>
                      ValuesOf(key) = {metadata[1][key]}

\* ------------------------------------------------------------------------
\* The service lookup and the request path of call_grpc_method and
\* start_client_stream
\* ------------------------------------------------------------------------

\* packages of the files of a pool; "" is a file with no package statement
Packages == {"", "a", "b"}

ServiceNames == {"S", "T"}

MethodNames == {"M", "N"}

\* a ServiceDescriptor: parent_file().package_name(), name(), methods()
ServiceDescriptors ==
    [package_name : Packages, name : ServiceNames,
     methods : {{"M"}, {"M", "N"}}]

\* a full name is declared once in a pool
DescriptorPools ==
    {pool \in SeqsUpTo(ServiceDescriptors, MaxServices) :
        \A i, j \in 1 .. Len(pool) :
            (/\ pool[i].package_name = pool[j].package_name
             /\ pool[i].name = pool[j].name) => i = j}

\* format!("/{}.{}/{}", package_name, service, method), or
\* format!("/{}/{}", service, method) for the empty package name
format_grpc_path(package_name, service_name, method_name) ==
    IF package_name # ""
    THEN <<"/", package_name, ".", service_name, "/", method_name>>
    ELSE <<"/", service_name, "/", method_name>>

\* descriptor_pool.services().next() .. parent_file().package_name()
PackageOfFirst(pool) == pool[1].package_name

\* descriptor_pool.services().find(|s| s.name() == service)
find_service(pool, service_name) ==
    LET hits == {i \in 1 .. Len(pool) : pool[i].name = service_name} IN
    IF hits = {} THEN None
    ELSE Some(pool[CHOOSE i \in hits : \A j \in hits : i <= j])

\* call_grpc_method: the package name of the first service and the path
call_first_service ==
    /\ path_pc = "compiled"
    /\ command = "call_grpc_method"
    /\ IF descriptor_pool = <<>>
       THEN /\ path_pc' = "returned"
            /\ path_ret' = ErrString("No services found in proto")
            /\ UNCHANGED grpc_path
       ELSE /\ path_pc' = "first"
            /\ grpc_path' = Some(format_grpc_path(
                    PackageOfFirst(descriptor_pool), service, method))
            /\ UNCHANGED path_ret
    /\ UNCHANGED <<command, descriptor_pool, service, method, service_desc>>
    /\ UNCHANGED pathFrame

\* the lookup of the service, then of the method in it
find_service_method ==
    /\ \/ path_pc = "first"
       \/ path_pc = "compiled" /\ command = "start_client_stream"
    /\ LET found == find_service(descriptor_pool, service) IN
        IF found = None
        THEN /\ path_pc' = "returned"
             /\ path_ret' = ErrString("Service not found")
             /\ UNCHANGED service_desc
        ELSE IF method \notin found[1].methods
        THEN /\ path_pc' = "returned"
             /\ path_ret' = ErrString("Method not found")
             /\ UNCHANGED service_desc
        ELSE /\ path_pc' = IF command = "call_grpc_method" THEN "request"
                           ELSE "found"
             /\ service_desc' = found
             /\ UNCHANGED path_ret
    /\ UNCHANGED <<command, descriptor_pool, service, method, grpc_path>>
    /\ UNCHANGED pathFrame

\* start_client_stream: the package name of the first service and the path
stream_first_service ==
    /\ path_pc = "found"
    /\ path_pc' = "request"
    /\ grpc_path' = Some(format_grpc_path(
            PackageOfFirst(descriptor_pool), service, method))
    /\ UNCHANGED <<command, descriptor_pool, service, method, service_desc,
                   path_ret>>
    /\ UNCHANGED pathFrame

\* a command names a service and a method; its proto compiles to a pool
PathInit ==
    /\ RuntimeIdle
    /\ HeaderIdle
    /\ SampleIdle
    /\ SurfaceIdle
    /\ FilesIdle
    /\ TlsIdle
    /\ path_pc = "compiled"
    /\ command \in {"call_grpc_method", "start_client_stream"}
    /\ descriptor_pool \in DescriptorPools
    /\ service \in ServiceNames
    /\ method \in MethodNames
    /\ service_desc = None
    /\ grpc_path = None
    /\ path_ret = NotReturned

PathNext ==
    \/ call_first_service
    \/ find_service_method
    \/ stream_first_service

PathSpec == PathInit /\ [][PathNext]_vars

\* ------------------------------------------------------------------------
\* Properties of the lookup and the path
\* ------------------------------------------------------------------------

\* the services of the pool with the simple name the command gives
Named ==
    {descriptor_pool[i] : i \in
        {j \in 1 .. Len(descriptor_pool) :
            descriptor_pool[j].name = service}}

\* C23: the path of the request is /{package}.{S}/{M} with the package of
\* the file that declares S, and /{S}/{M} when that file has no package,
\* also when the pool holds services of files with different packages.
C23_PathOfDeclaringPackage ==
    path_pc = "request" =>
        \E d \in Named :
            grpc_path =
                Some(format_grpc_path(d.package_name, service, method))

\* C30: a service name that matches more than one service of the pool is
\* an error of the command: no request is made for one of the candidates.
C30_AmbiguousNameIsFatal ==
    Cardinality(Named) > 1 => path_pc # "request"

\* ------------------------------------------------------------------------
\* The sample synthesizers: generate_sample_request of main.rs and
\* generate_sample_json of proto_parser.rs
\* ------------------------------------------------------------------------

MessageNames == {"A", "B"}

\* the values of the enum E
EnumValues == <<"ZERO", "ONE">>

Field(cardinality, kind, type_name) ==
    [cardinality |-> cardinality, kind |-> kind, type_name |-> type_name]

\* the fields a message declares: singular scalars, an enum, singular
\* messages, a repeated message and a map
FieldDescriptors ==
    {Field("singular", k, "") :
        k \in {"double", "int32", "bool", "string", "bytes"}}
    \cup {Field("singular", "enum", "E")}
    \cup {Field("singular", "message", m) : m \in MessageNames}
    \cup {Field("list", "message", "A"), Field("map", "message", "entry")}

\* field.json_name() of the i-th field of a message
json_name(i) == <<"f1", "f2", "f3", "f4">>[i]

\* the message descriptors of a pool
MessageGraphs == [MessageNames -> SeqsUpTo(FieldDescriptors, MaxFields)]

\* serde_json::Value
JsonNumber(text) == <<"number", text>>
JsonBool(b) == <<"bool", b>>
JsonString(text) == <<"string", text>>
JsonArray(items) == <<"array", items>>
JsonObject(map) == <<"object", map>>

\* the default of a field that is no singular message
scalar_default(field) ==
    IF field.cardinality = "list" THEN JsonArray(<<>>)
    ELSE IF field.cardinality = "map" THEN JsonObject(<<>>)
    ELSE CASE field.kind = "double" -> JsonNumber("0.0")
           [] field.kind = "int32" -> JsonNumber("0")
           [] field.kind = "bool" -> JsonBool(FALSE)
           [] field.kind = "string" -> JsonString("")
           [] field.kind = "bytes" -> JsonString("base64_encoded_bytes")
           [] field.kind = "enum" ->
                IF EnumValues # <<>> THEN JsonString(EnumValues[1])
                ELSE JsonNumber("0")

IsNested(field) == field.cardinality = "singular" /\ field.kind = "message"

\* a mutant: the fields of a message at MAX_SAMPLE_DEPTH are still filled in
PastMaxDepth(depth) == depth > MAX_SAMPLE_DEPTH

\* depth >= MAX_SAMPLE_DEPTH
AtMaxDepth(depth) == depth >= MAX_SAMPLE_DEPTH

\* proto_parser.rs: generate_sample_json(message, depth), with
\* default_value_for_field(field, depth + 1) for every field
RECURSIVE generate_sample_json(_, _, _)
generate_sample_json(graph, message, depth) ==
    IF AtMaxDepth(depth) THEN JsonObject(<<>>)
    ELSE LET fields == graph[message] IN
        JsonObject(
            [n \in {json_name(i) : i \in 1 .. Len(fields)} |->
                LET field ==
                    fields[CHOOSE i \in 1 .. Len(fields) : json_name(i) = n]
                IN IF IsNested(field)
                   THEN generate_sample_json(graph, field.type_name,
                                             depth + 1)
                   ELSE scalar_default(field)])

\* the stack of the thread is used up
StackOverflow == <<"stack overflow">>

\* main.rs: generate_default_value_for_field(field), which calls itself for
\* every field of a nested message; stack_left calls fit on the stack
RECURSIVE generate_default_value_for_field(_, _, _)
generate_default_value_for_field(graph, field, stack_left) ==
    IF stack_left = 0 THEN StackOverflow
    ELSE IF ~IsNested(field) THEN scalar_default(field)
    ELSE LET fields == graph[field.type_name]
             values == [i \in 1 .. Len(fields) |->
                 generate_default_value_for_field(graph, fields[i],
                                                  stack_left - 1)]
         IN IF \E i \in 1 .. Len(fields) : values[i] = StackOverflow
            THEN StackOverflow
            ELSE JsonObject(
                [n \in {json_name(i) : i \in 1 .. Len(fields)} |->
                    values[CHOOSE i \in 1 .. Len(fields) : json_name(i) = n]])

\* serde_json::to_string_pretty of the sample
SampleOk(sample) == [kind |-> "Ok", sample |-> sample]

\* main.rs generate_sample_request: the message is looked up by name, the
\* sample is made of the defaults of its fields
generate_sample_request ==
    /\ sample_pc = "called"
    /\ operation = "generate_sample_request"
    /\ IF message_type \notin DOMAIN message_descs
       THEN /\ sample_pc' = "returned"
            /\ sample_ret' = ErrString("Message type not found in proto")
       ELSE LET sample == generate_default_value_for_field(message_descs,
                    Field("singular", "message", message_type),
                    MaxStack + 1)
            IN IF sample = StackOverflow
               THEN /\ sample_pc' = "aborted"
                    /\ UNCHANGED sample_ret
               ELSE /\ sample_pc' = "returned"
                    /\ sample_ret' = SampleOk(sample)
    /\ UNCHANGED <<operation, message_descs, message_type>>
    /\ UNCHANGED sampleFrame

\* proto_parser.rs enrich_with_samples, for one method: the descriptor of
\* its input type is looked up; the sample is generate_sample_json at
\* depth 0, or a warning is pushed and sample_request stays None
enrich_with_samples ==
    /\ sample_pc = "called"
    /\ operation = "enrich_with_samples"
    /\ sample_pc' = "returned"
    /\ sample_ret' =
        IF message_type \notin DOMAIN message_descs
        THEN [kind |-> "warning"]
        ELSE SampleOk(generate_sample_json(message_descs, message_type, 0))
    /\ UNCHANGED <<operation, message_descs, message_type>>
    /\ UNCHANGED sampleFrame

\* a sample is asked for a message type of a pool
SampleInit ==
    /\ RuntimeIdle
    /\ HeaderIdle
    /\ PathIdle
    /\ SurfaceIdle
    /\ FilesIdle
    /\ TlsIdle
    /\ sample_pc = "called"
    /\ operation \in {"generate_sample_request", "enrich_with_samples"}
    /\ message_descs \in MessageGraphs
    /\ message_type \in {"A", "X"}
    /\ sample_ret = NotReturned

SampleNext ==
    \/ generate_sample_request
    \/ enrich_with_samples

SampleSpec == SampleInit /\ [][SampleNext]_vars

\* ------------------------------------------------------------------------
\* Properties of the sample synthesizers
\* ------------------------------------------------------------------------

\* C24: the sample synthesizer terminates on every descriptor graph,
\* self-referential and mutually recursive message types included, in the
\* sample-for operation and in the sample enrichment of parse-proto-files:
\* neither runs until the stack is used up.
C24_SynthesizerTerminates == sample_pc # "aborted"

JsonNames == {json_name(i) : i \in 1 .. MaxFields}

\* the message reached from `message` by the singular message fields that
\* `path` names, "" when the path leaves them
RECURSIVE MessageAt(_, _)
MessageAt(message, path) ==
    IF path = <<>> THEN message
    ELSE LET fields == message_descs[message]
             hits == {i \in 1 .. Len(fields) :
                         json_name(i) = path[1] /\ IsNested(fields[i])}
         IN IF hits = {} THEN ""
            ELSE MessageAt(fields[CHOOSE i \in hits : TRUE].type_name,
                           Tail(path))

Absent == <<"absent">>

\* the value a JSON value holds under a path of member names
RECURSIVE ValueAt(_, _)
ValueAt(json, path) ==
    IF path = <<>> THEN json
    ELSE IF json[1] # "object" THEN Absent
    ELSE IF path[1] \notin DOMAIN json[2] THEN Absent
    ELSE ValueAt(json[2][path[1]], Tail(path))

Enriched ==
    /\ sample_pc = "returned"
    /\ operation = "enrich_with_samples"
    /\ sample_ret.kind = "Ok"

\* C25: in the sample generate_sample_json makes, with the root message at
\* depth 0, a singular nested message reached at a depth below 4 is an
\* object with all of its fields, a nested message reached at depth 4 is
\* the empty object, and nothing is nested deeper than depth 4.
C25_DepthBoundedAtFour ==
    Enriched =>
        \A path \in SeqsUpTo(JsonNames, MAX_SAMPLE_DEPTH + 1) :
            LET message == MessageAt(message_type, path)
                json == ValueAt(sample_ret.sample, path)
            IN /\ Len(path) > 4 => json = Absent
               /\ (message # "" /\ Len(path) < 4) =>
                    /\ json[1] = "object"
                    /\ DOMAIN json[2] =
                        {json_name(i) :
                            i \in 1 .. Len(message_descs[message])}
               /\ (message # "" /\ Len(path) = 4) =>
                    json = JsonObject(<<>>)

\* a message that holds itself: expanded at depth 3, empty at depth 4
C25_Witness ==
    /\ Enriched
    /\ MessageAt(message_type, <<"f1", "f1", "f1", "f1", "f1">>) # ""
    /\ ValueAt(sample_ret.sample, <<"f1", "f1", "f1">>)[2] # <<>>
    /\ ValueAt(sample_ret.sample, <<"f1", "f1", "f1", "f1">>)
          = JsonObject(<<>>)

\* ------------------------------------------------------------------------
\* The surface parsers: parse_proto_file of main.rs and extract_services
\* of proto_parser.rs
\* ------------------------------------------------------------------------

\* A proto source is the sequence of its words and signs, with " " for a
\* run of white space.  The regular expressions of the parsers are matched
\* on these: \w+ is one word, [A-Za-z0-9_.]+ one word or dotted name, \s+
\* one " ", \s* at most one.

Signs == {"", " ", "(", ")", "{", "}", ";"}

\* a type name the rpc pattern accepts and \w+ does not
DottedNames == {"pkg.B"}

IsWord(tok) == tok \notin Signs \cup DottedNames

IsTypeName(tok) == tok \notin Signs

\* an rpc as the source declares it
Rpc(rpc_name, client_streaming, server_streaming, options) ==
    [name |-> rpc_name, client_streaming |-> client_streaming,
     input_type |-> "A", server_streaming |-> server_streaming,
     output_type |-> "pkg.B", options |-> options]

\* the rpcs a service can declare as its i-th: ended by ";" or by an
\* options block
RpcsAt(i) ==
    {Rpc(<<"M", "N", "O">>[i], cs, ss, options) :
        cs \in BOOLEAN, ss \in BOOLEAN, options \in {";", "{}"}}

RpcLists ==
    {rpcs \in SeqsUpTo(UNION {RpcsAt(i) : i \in 1 .. MaxRpcs}, MaxRpcs) :
        \A i \in 1 .. Len(rpcs) : rpcs[i] \in RpcsAt(i)}

\* the sources: up to MaxDeclared services, named by their position
Declarations ==
    {ds \in SeqsUpTo([name : {"S", "T", "U"}, rpcs : RpcLists],
                     MaxDeclared) :
        \A i \in 1 .. Len(ds) : ds[i].name = <<"S", "T", "U">>[i]}

\* white space where the grammar wants it ("spaced") or only where two
\* words meet ("tight")
Layouts == {"spaced", "tight"}

Gap(layout) == IF layout = "spaced" THEN <<" ">> ELSE <<>>

RenderArg(streaming, type_name) ==
    (IF streaming THEN <<"stream", " ">> ELSE <<>>) \o <<type_name>>

RenderRpc(rpc, layout) ==
    <<"rpc", " ", rpc.name>> \o Gap(layout) \o <<"(">>
        \o RenderArg(rpc.client_streaming, rpc.input_type)
        \o <<")">> \o Gap(layout) \o <<"returns">> \o Gap(layout)
        \o <<"(">> \o RenderArg(rpc.server_streaming, rpc.output_type)
        \o <<")">>
        \o (IF rpc.options = ";" THEN <<";">>
            ELSE Gap(layout) \o <<"{", "}">>)

RECURSIVE RenderRpcs(_, _)
RenderRpcs(rpcs, layout) ==
    IF rpcs = <<>> THEN <<>>
    ELSE RenderRpc(rpcs[1], layout) \o Gap(layout)
            \o RenderRpcs(Tail(rpcs), layout)

RenderService(d, layout) ==
    <<"service", " ", d.name>> \o Gap(layout) \o <<"{">> \o Gap(layout)
        \o RenderRpcs(d.rpcs, layout) \o <<"}">>

RECURSIVE RenderServices(_, _)
RenderServices(ds, layout) ==
    IF ds = <<>> THEN <<>>
    ELSE RenderService(ds[1], layout) \o Gap(layout)
            \o RenderServices(Tail(ds), layout)

\* the text of a source: an optional package statement, then the services
Render(package, ds, layout) ==
    (IF package = None THEN <<>>
     ELSE <<"package", " ", package[1], ";">> \o Gap(layout))
        \o RenderServices(ds, layout)

At(content, i) == IF i \in 1 .. Len(content) THEN content[i] ELSE ""

\* the position after \s* matched from i
SkipWs(content, i) == IF At(content, i) = " " THEN i + 1 ELSE i

NoMatch == [ok |-> FALSE]

\* the first "}" from position i on, 0 if there is none
FirstClose(content, i) ==
    LET closes == {k \in i .. Len(content) : content[k] = "}"} IN
    IF closes = {} THEN 0
    ELSE CHOOSE k \in closes : \A other \in closes : k <= other

\* service\s+(\w+)\s*\{([^}]*(?:\{[^}]*\}[^}]*)*)\} of parse_proto_file and
\* service\s+(\w+)\s*\{([\s\S]*?)\} of extract_services, matched at i.  In
\* the first, [^}]* is greedy and takes all up to the first "}", the group
\* (?:..)* then has no "{" to begin with and \} takes that "}"; in the
\* second, the lazy body ends at the first "}" too.
service_re(content, i) ==
    LET n == SkipWs(content, i + 1)
        open == SkipWs(content, n + 1)
        close == FirstClose(content, open + 1)
    IN IF /\ At(content, i) = "service"
          /\ n > i + 1
          /\ IsWord(At(content, n))
          /\ At(content, open) = "{"
          /\ close # 0
       THEN [ok |-> TRUE, name |-> content[n],
             body |-> SubSeq(content, open + 1, close - 1), end |-> close]
       ELSE NoMatch

\* \(\s*(stream\s+)?([A-Za-z0-9_.]+)\s*\) matched at the "(" at i
rpc_arg(content, i) ==
    LET a == SkipWs(content, i + 1)
        b == SkipWs(content, a + 1)
    IN IF At(content, i) # "(" THEN NoMatch
       ELSE IF /\ At(content, a) = "stream"
               /\ b > a + 1
               /\ IsTypeName(At(content, b))
               /\ At(content, SkipWs(content, b + 1)) = ")"
       THEN [ok |-> TRUE, streaming |-> TRUE, type_name |-> content[b],
             end |-> SkipWs(content, b + 1)]
       ELSE IF IsTypeName(At(content, a)) /\ At(content, b) = ")"
       THEN [ok |-> TRUE, streaming |-> FALSE, type_name |-> content[a],
             end |-> b]
       ELSE NoMatch

\* a mutant: the method type is read off the output alone
method_type_of_output(cs, ss) ==
    IF ss THEN "server_streaming" ELSE "unary"

\* match (is_client_streaming, is_server_streaming) { .. }
method_type(cs, ss) ==
    CASE ~cs /\ ~ss -> "unary"
      [] ~cs /\ ss -> "server_streaming"
      [] cs /\ ~ss -> "client_streaming"
      [] cs /\ ss -> "bidirectional_streaming"

\* rpc\s+(\w+)\s*\( .. \)\s+returns\s*\( .. \) matched at i, as the
\* MethodInfo made of its groups
rpc_re(content, i) ==
    LET n == SkipWs(content, i + 1)
        input == rpc_arg(content, SkipWs(content, n + 1))
    IN IF ~(/\ At(content, i) = "rpc"
            /\ n > i + 1
            /\ IsWord(At(content, n))
            /\ input.ok)
       THEN NoMatch
       ELSE LET r == SkipWs(content, input.end + 1)
                output == rpc_arg(content, SkipWs(content, r + 1))
            IN IF ~(/\ r > input.end + 1
                    /\ At(content, r) = "returns"
                    /\ output.ok)
               THEN NoMatch
               ELSE [ok |-> TRUE, end |-> output.end,
                     method |->
                        [name |-> content[n],
                         input_type |-> input.type_name,
                         output_type |-> output.type_name,
                         is_client_streaming |-> input.streaming,
                         is_server_streaming |-> output.streaming,
                         method_type |->
                            method_type(input.streaming,
                                        output.streaming)]]

\* rpc_re.captures_iter(body): the matches from left to right
RECURSIVE rpc_captures(_, _)
rpc_captures(content, i) ==
    IF i > Len(content) THEN <<>>
    ELSE LET m == rpc_re(content, i) IN
        IF m.ok THEN <<m.method>> \o rpc_captures(content, m.end + 1)
        ELSE rpc_captures(content, i + 1)

\* service_re.captures_iter(content), each with the methods of its body
RECURSIVE service_captures(_, _)
service_captures(content, i) ==
    IF i > Len(content) THEN <<>>
    ELSE LET m == service_re(content, i) IN
        IF m.ok
        THEN <<[name |-> m.name, methods |-> rpc_captures(m.body, 1)]>>
                \o service_captures(content, m.end + 1)
        ELSE service_captures(content, i + 1)

\* package\s+([A-Za-z0-9_.]+)\s*; : the first match, or None
extract_package(content) ==
    LET hits == {i \in 1 .. Len(content) :
                    /\ content[i] = "package"
                    /\ At(content, i + 1) = " "
                    /\ IsTypeName(At(content, i + 2))
                    /\ At(content, SkipWs(content, i + 3)) = ";"}
    IN IF hits = {} THEN None
       ELSE Some(content[(CHOOSE i \in hits : \A j \in hits : i <= j) + 2])

\* main.rs parse_proto_file: the services, or Err when there is none
parse_proto_file ==
    /\ surface_pc = "called"
    /\ parser = "parse_proto_file"
    /\ surface_pc' = "returned"
    /\ LET services == service_captures(proto_content, 1) IN
        parsed' = IF services = <<>>
                  THEN ErrString("No services found in proto file")
                  ELSE [kind |-> "Ok", services |-> services,
                        package_name |-> None, warnings |-> 0]
    /\ UNCHANGED <<parser, declared, proto_content>>
    /\ UNCHANGED surfaceFrame

\* proto_parser.rs extract_services, for one file: the services with the
\* package name of the file, a warning for every service with no method
extract_services ==
    /\ surface_pc = "called"
    /\ parser = "extract_services"
    /\ surface_pc' = "returned"
    /\ LET services == service_captures(proto_content, 1) IN
        parsed' = [kind |-> "Ok", services |-> services,
                   package_name |-> extract_package(proto_content),
                   warnings |->
                      Cardinality({i \in 1 .. Len(services) :
                                      services[i].methods = <<>>})]
    /\ UNCHANGED <<parser, declared, proto_content>>
    /\ UNCHANGED surfaceFrame

\* a parser is given the text of a source
SurfaceInit ==
    /\ RuntimeIdle
    /\ HeaderIdle
    /\ PathIdle
    /\ SampleIdle
    /\ FilesIdle
    /\ TlsIdle
    /\ surface_pc = "called"
    /\ parser \in {"parse_proto_file", "extract_services"}
    /\ declared \in Declarations
    /\ \E package \in {None, Some("a")}, layout \in Layouts :
          proto_content = Render(package, declared, layout)
    /\ parsed = NotReturned

SurfaceNext ==
    \/ parse_proto_file
    \/ extract_services

SurfaceSpec == SurfaceInit /\ [][SurfaceNext]_vars

\* ------------------------------------------------------------------------
\* Properties of the surface parsers
\* ------------------------------------------------------------------------

SurfaceReturned == surface_pc = "returned" /\ parsed.kind = "Ok"

\* the rpc of the source that a returned method of a returned service names
DeclaredRpcs(service_name, rpc_name) ==
    UNION {{declared[i].rpcs[k] : k \in
                {l \in 1 .. Len(declared[i].rpcs) :
                    declared[i].rpcs[l].name = rpc_name}} :
           i \in {j \in 1 .. Len(declared) :
                    declared[j].name = service_name}}

\* C26: every method a surface parser returns has the method_type of the
\* truth table of (client_streaming, server_streaming), client_streaming
\* holds iff the input type of the rpc is preceded by stream and
\* server_streaming iff its output type is; parse_proto_file returns a
\* non-empty list for every source that declares a service.
C26_MethodTypeTable ==
    /\ SurfaceReturned =>
          \A i \in 1 .. Len(parsed.services) :
              \A k \in 1 .. Len(parsed.services[i].methods) :
                  LET m == parsed.services[i].methods[k]
                      c == m.is_client_streaming
                      s == m.is_server_streaming
                  IN /\ ~c /\ ~s => m.method_type = "unary"
                     /\ ~c /\ s => m.method_type = "server_streaming"
                     /\ c /\ ~s => m.method_type = "client_streaming"
                     /\ c /\ s =>
                            m.method_type = "bidirectional_streaming"
                     /\ \E rpc \in
                            DeclaredRpcs(parsed.services[i].name, m.name) :
                            /\ rpc.client_streaming = c
                            /\ rpc.server_streaming = s
    /\ (/\ surface_pc = "returned"
        /\ parser = "parse_proto_file"
        /\ declared # <<>>) =>
          /\ parsed.kind = "Ok"
          /\ parsed.services # <<>>

\* a source with a client-streaming and a bidirectional rpc, both returned
C26_Witness ==
    /\ SurfaceReturned
    /\ parser = "parse_proto_file"
    /\ \E i \in 1 .. Len(parsed.services) :
          /\ Len(parsed.services[i].methods) = 2
          /\ parsed.services[i].methods[1].method_type = "client_streaming"
          /\ parsed.services[i].methods[2].method_type
                = "bidirectional_streaming"

\* ------------------------------------------------------------------------
\* The proto files of the import roots: parse_proto_files and
\* compile_proto_from_paths of proto_parser.rs
\* ------------------------------------------------------------------------

\* A path is the sequence of the pieces of its text: "/", "." and the
\* pieces of the names between them.  starts_with of str is IsPrefix on
\* it, and "/p" is a prefix of "/p2" as it is in the text.

\* the directories of the file system
Dirs ==
    {<<"/">>, <<"/", "p">>, <<"/", "p", "/", "vendor">>,
     <<"/", "p", "/", "vendor", "/", "google">>, <<"/", "p", "2">>,
     <<"/", "q">>}

str_import_money == "\"google/money.proto\""

\* the path between the quotes of an import statement
import_path_of(tok) ==
    IF tok = str_import_money THEN <<"google", "/", "money", ".", "proto">>
    ELSE <<>>

\* the files: the text of a file, None where fs::read_to_string fails
Disk ==
    LET N == Rpc("N", TRUE, FALSE, ";")
        M == Rpc("M", FALSE, FALSE, ";")
    IN (<<"/", "p", "/", "a", ".", "proto">> :>
            Some(Render(Some("b"), <<>>, "spaced")
                    \o <<"import", " ", str_import_money, ";", " ">>
                    \o RenderServices(<<[name |-> "S", rpcs |-> <<N, M>>]>>,
                                      "spaced")))
    @@ (<<"/", "p", "/", "notes", ".", "txt">> :> Some(<<"notes">>))
    @@ (<<"/", "p", "/", "vendor", "/", "google", "/", "money", ".",
          "proto">> :> Some(Render(Some("google"), <<>>, "spaced")))
    @@ (<<"/", "p", "2", "/", "a", ".", "proto">> :>
            Some(Render(Some("a"),
                        <<[name |-> "T", rpcs |-> <<M>>],
                          [name |-> "U", rpcs |-> <<>>]>>, "spaced")))
    @@ (<<"/", "p", "2", "/", "bad", ".", "PROTO">> :> None)

\* the paths of the files in the order of their text
SortedPaths ==
    <<<<"/", "p", "/", "a", ".", "proto">>,
      <<"/", "p", "/", "notes", ".", "txt">>,
      <<"/", "p", "/", "vendor", "/", "google", "/", "money", ".",
        "proto">>,
      <<"/", "p", "2", "/", "a", ".", "proto">>,
      <<"/", "p", "2", "/", "bad", ".", "PROTO">>>>

\* Path::exists, is_file, is_dir
exists(path) == path \in Dirs \cup DOMAIN Disk
is_file(path) == path \in DOMAIN Disk
is_dir(path) == path \in Dirs

\* Path::parent of an absolute path other than "/"
parent(path) ==
    LET slashes == {i \in 1 .. Len(path) : path[i] = "/"}
        last == CHOOSE i \in slashes : \A j \in slashes : j <= i
    IN IF last = 1 THEN <<"/">> ELSE SubSeq(path, 1, last - 1)

\* Path::join of a directory and a relative path
join(dir, relative) ==
    IF dir = <<"/">> THEN dir \o relative ELSE dir \o <<"/">> \o relative

\* the files WalkDir::new(dir) yields
WalkDir(dir) == {path \in DOMAIN Disk : IsPrefix(dir \o <<"/">>, path)}

to_ascii_lowercase(word) == IF word = "PROTO" THEN "proto" ELSE word

\* the extension is "proto" in any case of its letters
is_proto_file(path) ==
    /\ Len(path) >= 3
    /\ path[Len(path) - 1] = "."
    /\ path[Len(path) - 2] # "/"
    /\ to_ascii_lowercase(path[Len(path)]) = "proto"

\* results.sort_by(..): the paths of a set in the order of their text
SortPaths(paths) == SelectSeq(SortedPaths, LAMBDA path : path \in paths)

\* a warning: its wording, and the name and the path it is about
Warning(message, name, path) ==
    [message |-> message, name |-> name, path |-> path]

\* the import roots a caller can pass
ImportPath(path, enabled) ==
    [id |-> path, path |-> path, path_type |-> "any", enabled |-> enabled]

ImportRoots ==
    {<<"/", "p">>, <<"/", "p", "2">>, <<"/", "q">>, <<"/", "missing">>,
     <<"/", "p", "/", "vendor">>, <<"/", "p", "/", "a", ".", "proto">>,
     <<"/", "p", "/", "notes", ".", "txt">>}

ImportLists ==
    SeqsUpTo({ImportPath(path, enabled) :
                path \in ImportRoots, enabled \in BOOLEAN}, MaxRoots)

\* a mutant: the disabled roots are kept
every_import(imports) == imports

\* import_paths.into_iter().filter(|p| p.enabled)
enabled_imports(imports) == SelectSeq(imports, LAMBDA p : p.enabled)

\* discover_proto_files from the root at position i on: results holds the
\* paths found so far (it is also what seen holds)
RECURSIVE discover_proto_files(_, _, _, _)
discover_proto_files(imports, i, results, warnings) ==
    IF i > Len(imports)
    THEN [results |-> SortPaths(results), warnings |-> warnings]
    ELSE LET candidate_path == imports[i].path
             found == {path \in WalkDir(candidate_path) :
                          is_proto_file(path)}
         IN IF ~exists(candidate_path)
            THEN discover_proto_files(imports, i + 1, results,
                    Append(warnings,
                           Warning("Import path does not exist", "",
                                   candidate_path)))
            ELSE IF is_file(candidate_path)
            THEN IF is_proto_file(candidate_path)
                 THEN discover_proto_files(imports, i + 1,
                        results \cup {candidate_path}, warnings)
                 ELSE discover_proto_files(imports, i + 1, results,
                        Append(warnings,
                               Warning("File is not a .proto file and "
                                          \o "was skipped", "",
                                       candidate_path)))
            ELSE discover_proto_files(imports, i + 1, results \cup found,
                    IF found = {}
                    THEN Append(warnings,
                                Warning("No .proto files found under", "",
                                        candidate_path))
                    ELSE warnings)

\* an error of a ProtoParseResult
ProtoParseError(file, message) == [file |-> file, message |-> message]

\* read_proto_files: the files read, in the order of the paths, and an
\* error for every file that could not be read
RECURSIVE read_proto_files(_, _)
read_proto_files(paths, errors) ==
    IF paths = <<>> THEN [result |-> <<>>, errors |-> errors]
    ELSE LET path == Head(paths) IN
        IF Disk[path] # None
        THEN LET rest == read_proto_files(Tail(paths), errors) IN
            [rest EXCEPT !.result =
                <<[path |-> path, content |-> Disk[path][1]]>> \o @]
        ELSE read_proto_files(Tail(paths),
                Append(errors,
                       ProtoParseError(path, "Failed to read proto file")))

\* a Method of a Service, as extract_services pushes it
Method(m) ==
    [name |-> m.name, input_type |-> m.input_type,
     output_type |-> m.output_type,
     is_client_streaming |-> m.is_client_streaming,
     is_server_streaming |-> m.is_server_streaming,
     method_type |-> m.method_type, sample_request |-> None]

\* the body of the loop of extract_services over the files: the services
\* of one file and a warning for each that has no method
file_services(file) ==
    LET caps == service_captures(file.content, 1)
        empties == SelectSeq(caps, LAMBDA c : c.methods = <<>>)
    IN [services |->
            [i \in 1 .. Len(caps) |->
                [name |-> caps[i].name,
                 package_name |-> extract_package(file.content),
                 methods |->
                    [k \in 1 .. Len(caps[i].methods) |->
                        Method(caps[i].methods[k])],
                 source_proto |-> Some(file.path)]],
        warnings |->
            [i \in 1 .. Len(empties) |->
                Warning("Service has no RPC methods", empties[i].name,
                        file.path)]]

\* extract_services over the files read
RECURSIVE extract_services_of(_)
extract_services_of(proto_files) ==
    IF proto_files = <<>> THEN [services |-> <<>>, warnings |-> <<>>]
    ELSE LET first == file_services(Head(proto_files))
             rest == extract_services_of(Tail(proto_files))
         IN [services |-> first.services \o rest.services,
             warnings |-> first.warnings \o rest.warnings]

\* service\s+\w+\s*\{ matches somewhere in the text
has_service_definition(content) ==
    \E i \in 1 .. Len(content) :
        LET n == SkipWs(content, i + 1) IN
            /\ content[i] = "service"
            /\ n > i + 1
            /\ IsWord(At(content, n))
            /\ At(content, SkipWs(content, n + 1)) = "{"

\* extract_all_imports: what import\s+"([^"]+)"; captures in the files,
\* sorted and without duplicates
extract_all_imports(proto_files) ==
    LET captured ==
            UNION {{file.content[i + 2] :
                        i \in {j \in 1 .. Len(file.content) :
                                /\ file.content[j] = "import"
                                /\ At(file.content, j + 1) = " "
                                /\ import_path_of(At(file.content, j + 2))
                                      # <<>>
                                /\ At(file.content, j + 3) = ";"}} :
                   file \in {proto_files[k] : k \in DOMAIN proto_files}}
    IN SelectSeq(<<str_import_money>>, LAMBDA tok : tok \in captured)

\* entry.file_name() of a directory
file_name(path) ==
    LET slashes == {i \in 1 .. Len(path) : path[i] = "/"}
        last == CHOOSE i \in slashes : \A j \in slashes : j <= i
    IN SubSeq(path, last + 1, Len(path))

\* import_stmt.split('/').next()
import_first(relative) ==
    LET slashes == {i \in 1 .. Len(relative) : relative[i] = "/"} IN
    IF slashes = {} THEN relative
    ELSE SubSeq(relative, 1,
                (CHOOSE i \in slashes : \A j \in slashes : i <= j) - 1)

\* find_import_in_subdirs: a directory at most 3 levels below base_path
\* that has the name of the first segment of the import and whose parent
\* holds the imported file, as that parent
find_import_in_subdirs(base_path, import_stmt) ==
    LET relative == import_path_of(import_stmt)
        depth(dir) ==
            Cardinality({i \in Len(base_path) + 1 .. Len(dir) :
                            dir[i] = "/"})
        hits == {dir \in Dirs :
                    /\ dir = base_path \/ IsPrefix(base_path \o <<"/">>, dir)
                    /\ depth(dir) <= 3
                    /\ file_name(dir) = import_first(relative)
                    /\ dir # <<"/">>
                    /\ exists(join(parent(dir), relative))}
    IN IF hits = {} THEN None
       ELSE Some(parent(CHOOSE dir \in hits : TRUE))

\* the first pass of discover_proto_paths from the root at position i on:
\* a directory root, or the parent of another root when it exists
RECURSIVE configured_proto_paths(_, _, _)
configured_proto_paths(imports, i, found) ==
    IF i > Len(imports) THEN found
    ELSE LET import_path == imports[i].path
             dir == IF is_dir(import_path) THEN import_path
                    ELSE parent(import_path)
         IN configured_proto_paths(imports, i + 1,
                IF exists(dir) /\ \A k \in DOMAIN found : found[k] # dir
                THEN Append(found, dir)
                ELSE found)

\* the second pass, from the import statement at position k of the root at
\* position i on: the directories under the directory roots that hold the
\* imports the roots do not resolve
RECURSIVE searched_proto_paths(_, _, _, _, _)
searched_proto_paths(imports, all_imports, i, k, found) ==
    IF i > Len(imports) THEN found
    ELSE IF ~is_dir(imports[i].path) \/ k > Len(all_imports)
    THEN searched_proto_paths(imports, all_imports, i + 1, 1, found)
    ELSE LET import_path == imports[i].path
             direct_path ==
                join(import_path, import_path_of(all_imports[k]))
             found_path ==
                find_import_in_subdirs(import_path, all_imports[k])
         IN searched_proto_paths(imports, all_imports, i, k + 1,
                IF /\ ~exists(direct_path)
                   /\ found_path # None
                   /\ \A n \in DOMAIN found : found[n] # found_path[1]
                THEN Append(found, found_path[1])
                ELSE found)

discover_proto_paths(imports, all_imports) ==
    searched_proto_paths(imports, all_imports, 1, 1,
                         configured_proto_paths(imports, 1, <<>>))

\* trim_start_matches(['/', '\\'])
RECURSIVE trim_start_slashes(_)
trim_start_slashes(text) ==
    IF text # <<>> /\ Head(text) = "/" THEN trim_start_slashes(Tail(text))
    ELSE text

\* Path::strip_prefix: base is a prefix of path component by component
strip_prefix(path, base) ==
    IF path = base THEN Some(<<>>)
    ELSE IF base = <<"/">> /\ IsPrefix(base, path)
    THEN Some(SubSeq(path, 2, Len(path)))
    ELSE IF IsPrefix(base \o <<"/">>, path)
    THEN Some(SubSeq(path, Len(base) + 2, Len(path)))
    ELSE None

\* find_relative_proto_path_from_roots from the root at position i on: the
\* text of the path after the first root its text starts with
RECURSIVE find_relative_proto_path_from_roots(_, _, _)
find_relative_proto_path_from_roots(path, roots, i) ==
    IF i > Len(roots) THEN None
    ELSE LET relative ==
                trim_start_slashes(
                    SubSeq(path, Len(roots[i]) + 1, Len(path)))
             stripped == strip_prefix(path, roots[i])
         IN IF IsPrefix(roots[i], path) /\ relative # <<>>
            THEN Some(relative)
            ELSE IF stripped # None /\ stripped[1] # <<>>
            THEN Some(stripped[1])
            ELSE find_relative_proto_path_from_roots(path, roots, i + 1)

\* the file protoc reads for an input file of its command line: the path
\* itself when it is absolute, else the file of that name under the first
\* --proto_path that has one
protoc_input(proto_path_args, arg) ==
    LET holders == {i \in DOMAIN proto_path_args :
                        is_file(join(proto_path_args[i], arg))}
    IN IF arg # <<>> /\ Head(arg) = "/"
       THEN IF is_file(arg) THEN Some(arg) ELSE None
       ELSE IF holders = {} THEN None
       ELSE Some(join(proto_path_args[CHOOSE i \in holders :
                                        \A j \in holders : i <= j], arg))

\* what the environment gives a run of protoc: the step that fails, or
\* "ok" and the messages of the pool decoded from the descriptor set
Message(package, message_name) ==
    [package |-> package, name |-> message_name]

ProtocOutcomes ==
    {[step |-> step, pool |-> {}] :
        step \in {"temp_dir", "run", "exit", "read", "decode"}}
    \cup {[step |-> "ok", pool |-> pool] :
            pool \in {{}, {Message("a", "A")},
                      {Message("a", "A"), Message("b", "A")}}}

\* the command line of protoc
ProtocCommand(proto_path_args, files) ==
    [proto_path |-> proto_path_args, files |-> files]

\* the element of a set of one: The({F(x) : x \in {e}}) is F of the value
\* of e, as a let binds a value in the code
The(S) == CHOOSE x \in S : TRUE

\* compile_proto_bundle from the protoc command on (lines 372-411): the
\* pool or the error, and the command line.  protoc exits with an error
\* when it finds no file for an input file.
run_protoc(service_files, proto_path_args, outcome) ==
    LET files ==
            [i \in 1 .. Len(service_files) |->
                LET proto_arg ==
                        find_relative_proto_path_from_roots(
                            service_files[i].path, proto_path_args, 1)
                IN IF proto_arg = None THEN service_files[i].path
                   ELSE proto_arg[1]]
        failure ==
            IF outcome.step = "run" THEN Some("Failed to run protoc")
            ELSE IF \/ outcome.step = "exit"
                    \/ \E i \in DOMAIN files :
                         protoc_input(proto_path_args, files[i]) = None
            THEN Some("protoc failed")
            ELSE IF outcome.step = "read"
            THEN Some("Failed to read descriptor set")
            ELSE IF outcome.step = "decode"
            THEN Some("Failed to decode descriptor set")
            ELSE None
    IN [ret |-> IF failure = None
                THEN [kind |-> "Ok", pool |-> outcome.pool]
                ELSE ErrString(failure[1]),
        command |-> Some(ProtocCommand(proto_path_args, files))]

\* compile_proto_bundle: the pool or the error, and the command line when
\* protoc was run
compile_proto_bundle(proto_files, imports, outcome) ==
    IF proto_files = <<>>
    THEN [ret |-> ErrString("No proto files available for compilation"),
          command |-> None]
    ELSE IF outcome.step = "temp_dir"
    THEN [ret |-> ErrString("Failed to create temporary directory"),
          command |-> None]
    ELSE The({IF service_files = <<>>
              THEN [ret |-> ErrString("No proto files with service "
                                        \o "definitions found"),
                    command |-> None]
              ELSE run_protoc(service_files, proto_path_args, outcome) :
                service_files \in
                    {SelectSeq(proto_files,
                        LAMBDA file : has_service_definition(file.content))},
                proto_path_args \in
                    {discover_proto_paths(imports,
                        extract_all_imports(proto_files))}})

\* find_message_descriptor for a type name with no dot in it: the message
\* of that full name, then the one of the package of the service, then the
\* only message of that simple name
find_message_descriptor(pool, package, type_name) ==
    LET exact == {m \in pool : m.package = "" /\ m.name = type_name}
        qualified == {m \in pool : /\ package # None
                                   /\ m.package = package[1]
                                   /\ m.name = type_name}
        simple == {m \in pool : m.name = type_name}
    IN IF exact # {} THEN Some(CHOOSE m \in exact : TRUE)
       ELSE IF qualified # {} THEN Some(CHOOSE m \in qualified : TRUE)
       ELSE IF Cardinality(simple) = 1 THEN Some(CHOOSE m \in simple : TRUE)
       ELSE None

\* the loop of enrich_with_samples over the methods of one service: the
\* sample of a method is named by the message it is generated from
service_samples(svc, pool) ==
    LET descriptor(m) ==
            find_message_descriptor(pool, svc.package_name,
                                    m.input_type)
        missing == SelectSeq(svc.methods,
                             LAMBDA m : descriptor(m) = None)
    IN [service |->
            [svc EXCEPT !.methods =
                [k \in DOMAIN svc.methods |->
                    IF descriptor(svc.methods[k]) = None
                    THEN svc.methods[k]
                    ELSE [svc.methods[k] EXCEPT !.sample_request =
                            Some(descriptor(svc.methods[k])[1])]]],
        warnings |->
            [k \in 1 .. Len(missing) |->
                Warning("Descriptor not found", missing[k].input_type,
                        <<>>)]]

RECURSIVE samples_of(_, _)
samples_of(services, pool) ==
    IF services = <<>> THEN [services |-> <<>>, warnings |-> <<>>]
    ELSE LET first == service_samples(Head(services), pool)
             rest == samples_of(Tail(services), pool)
         IN [services |-> <<first.service>> \o rest.services,
             warnings |-> first.warnings \o rest.warnings]

\* enrich_with_samples over the services
enrich_with_samples_of(services, pool) ==
    LET enriched == samples_of(services, pool) IN
    [services |-> enriched.services,
     warnings |->
        (IF pool = {}
         THEN <<Warning("No message types found in descriptor pool", "",
                        <<>>)>>
         ELSE <<>>) \o enriched.warnings]

\* the names of the sources in the order of str
SortedWords == <<"M", "N", "O", "S", "T", "U", "a", "b", "google">>

WordRank(word) ==
    CHOOSE i \in DOMAIN SortedWords : SortedWords[i] = word

\* sort_by of a Vec, which keeps the order of equal elements: rank[i] is
\* the place of the key of items[i] among the keys
StableSort(items, rank) ==
    LET Before(i, j) == rank[i] < rank[j] \/ (rank[i] = rank[j] /\ i < j)
        place(i) == Cardinality({j \in DOMAIN items : Before(j, i)}) + 1
    IN [k \in DOMAIN items |->
            items[CHOOSE i \in DOMAIN items : place(i) = k]]

\* services.sort_by(package_name, then name), methods.sort_by(name)
sort_services(services) ==
    LET sorted ==
            StableSort(services,
                [i \in DOMAIN services |->
                    (IF services[i].package_name = None THEN 0
                     ELSE WordRank(services[i].package_name[1])
                            * (Len(SortedWords) + 1))
                    + WordRank(services[i].name)])
    IN [i \in DOMAIN sorted |->
            [sorted[i] EXCEPT !.methods =
                StableSort(@, [k \in DOMAIN @ |-> WordRank(@[k].name)])]]

ProtoParseResult(succeeded, services, errors, warnings) ==
    [kind |-> "result", success |-> succeeded, services |-> services,
     errors |-> errors, warnings |-> warnings]

\* a mutant: any error makes the result a failure
success_without_errors(errors, services) == errors = <<>>

\* let success = errors.is_empty() || !services.is_empty()
success(errors, services) == errors = <<>> \/ services # <<>>

\* parse_proto_files from the compilation on (lines 117-155)
parse_compiled(discovered, read, extracted, compiled) ==
    LET errors ==
            IF compiled.ret.kind = "Ok" THEN read.errors
            ELSE Append(read.errors,
                        ProtoParseError(<<"protoc">>, compiled.ret.text))
    IN The({The({[proto_paths |-> discovered.results,
                  command |-> compiled.command,
                  ret |-> ProtoParseResult(success(errors, services),
                            services, errors,
                            discovered.warnings \o extracted.warnings
                                \o enriched.warnings)] :
                    services \in {sort_services(enriched.services)}}) :
                enriched \in
                    {IF compiled.ret.kind = "Ok"
                     THEN enrich_with_samples_of(extracted.services,
                                                 compiled.ret.pool)
                     ELSE [services |-> extracted.services,
                           warnings |-> <<>>]}})

\* parse_proto_files from the reading of the files on (lines 104-155)
parse_discovered(enabled, discovered, outcome) ==
    The({IF read.result = <<>>
         THEN [proto_paths |-> discovered.results, command |-> None,
               ret |-> ProtoParseResult(FALSE, <<>>, read.errors,
                                        discovered.warnings)]
         ELSE The({parse_compiled(discovered, read, extracted, compiled) :
                    extracted \in {extract_services_of(read.result)},
                    compiled \in
                        {compile_proto_bundle(read.result, enabled,
                                              outcome)}}) :
            read \in {read_proto_files(discovered.results, <<>>)}})

\* parse_proto_files from the discovery on (lines 87-155)
parse_enabled(enabled, outcome) ==
    The({IF discovered.results = <<>>
         THEN [proto_paths |-> <<>>, command |-> None,
               ret |-> ProtoParseResult(FALSE, <<>>,
                        <<ProtoParseError(<<"workspace">>,
                            "No .proto files found in the configured "
                                \o "import paths")>>,
                        discovered.warnings)]
         ELSE parse_discovered(enabled, discovered, outcome) :
            discovered \in {discover_proto_files(enabled, 1, {}, <<>>)}})

\* parse_proto_files as a function of the roots and of what protoc gives:
\* the files discovered, the command line of protoc and the result
ParseProtoFiles(imports, outcome) ==
    The({IF enabled = <<>>
         THEN [proto_paths |-> <<>>, command |-> None,
               ret |-> ProtoParseResult(FALSE, <<>>,
                        <<ProtoParseError(<<"workspace">>,
                            "All import paths are disabled")>>, <<>>)]
         ELSE parse_enabled(enabled, outcome) :
            enabled \in {enabled_imports(imports)}})

\* compile_proto_from_paths from the discovery on (lines 748-761)
compile_enabled(enabled, outcome) ==
    The({IF discovered.results = <<>>
         THEN [proto_paths |-> <<>>, command |-> None,
               ret |-> ErrString("No .proto files found in import paths")]
         ELSE The({IF read.errors # <<>>
                   THEN [proto_paths |-> discovered.results,
                         command |-> None,
                         ret |-> ErrString("Failed to read proto files")]
                   ELSE The({[proto_paths |-> discovered.results,
                              command |-> compiled.command,
                              ret |-> compiled.ret] :
                            compiled \in
                                {compile_proto_bundle(read.result, enabled,
                                                      outcome)}}) :
                    read \in
                        {read_proto_files(discovered.results, <<>>)}}) :
            discovered \in {discover_proto_files(enabled, 1, {}, <<>>)}})

\* compile_proto_from_paths as a function of the same
CompileProtoFromPaths(imports, outcome) ==
    The({IF enabled = <<>>
         THEN [proto_paths |-> <<>>, command |-> None,
               ret |-> ErrString("No enabled import paths")]
         ELSE compile_enabled(enabled, outcome) :
            enabled \in {enabled_imports(imports)}})

\* the command parse_proto_files of main.rs, which calls the function of
\* proto_parser.rs
parse_proto_files ==
    /\ files_pc = "called"
    /\ files_cmd = "parse_proto_files"
    /\ files_pc' = "returned"
    /\ \E done \in {ParseProtoFiles(import_paths, protoc_outcome)} :
        /\ proto_paths' = done.proto_paths
        /\ protoc_command' = done.command
        /\ files_ret' = done.ret
    /\ UNCHANGED <<files_cmd, import_paths, protoc_outcome>>
    /\ UNCHANGED filesFrame

\* compile_proto_from_paths, called by call_grpc_method and by
\* start_client_stream when they are given import paths
compile_proto_from_paths ==
    /\ files_pc = "called"
    /\ files_cmd = "compile_proto_from_paths"
    /\ files_pc' = "returned"
    /\ \E done \in {CompileProtoFromPaths(import_paths, protoc_outcome)} :
        /\ proto_paths' = done.proto_paths
        /\ protoc_command' = done.command
        /\ files_ret' = done.ret
    /\ UNCHANGED <<files_cmd, import_paths, protoc_outcome>>
    /\ UNCHANGED filesFrame

\* a function is called with a list of import roots
FilesInit ==
    /\ RuntimeIdle
    /\ TlsIdle
    /\ HeaderIdle
    /\ PathIdle
    /\ SampleIdle
    /\ SurfaceIdle
    /\ files_pc = "called"
    /\ files_cmd \in {"parse_proto_files", "compile_proto_from_paths"}
    /\ import_paths \in ImportLists
    /\ protoc_outcome \in ProtocOutcomes
    /\ proto_paths = <<>>
    /\ protoc_command = None
    /\ files_ret = NotReturned

FilesNext ==
    \/ parse_proto_files
    \/ compile_proto_from_paths

FilesSpec == FilesInit /\ [][FilesNext]_vars

\* ------------------------------------------------------------------------
\* Properties of parse_proto_files and compile_proto_from_paths
\* ------------------------------------------------------------------------

FilesReturned == files_pc = "returned"

\* the import roots without the disabled ones
EnabledRoots == SelectSeq(import_paths, LAMBDA root : root.enabled)

\* what the function called gives for the enabled roots alone
OfEnabledRoots ==
    IF files_cmd = "parse_proto_files"
    THEN ParseProtoFiles(EnabledRoots, protoc_outcome)
    ELSE CompileProtoFromPaths(EnabledRoots, protoc_outcome)

\* C27: a disabled import root contributes nothing: the proto files
\* discovered, the command line of protoc with its proto_path list, and
\* the services and the warnings returned are those of the same list of
\* roots without the disabled ones.
C27_DisabledRootContributesNothing ==
    FilesReturned =>
        /\ proto_paths = OfEnabledRoots.proto_paths
        /\ protoc_command = OfEnabledRoots.command
        /\ files_cmd = "parse_proto_files" =>
              /\ files_ret.services = OfEnabledRoots.ret.services
              /\ files_ret.warnings = OfEnabledRoots.ret.warnings

\* parse_proto_files returned services of an enabled root and protoc was
\* run, with a disabled directory of proto files in the list
C27_Witness ==
    /\ FilesReturned
    /\ files_cmd = "parse_proto_files"
    /\ files_ret.services # <<>>
    /\ protoc_command # None
    /\ \E i \in DOMAIN import_paths :
          /\ ~import_paths[i].enabled
          /\ \E path \in WalkDir(import_paths[i].path) :
                /\ is_proto_file(path)
                /\ \A k \in DOMAIN proto_paths : proto_paths[k] # path

\* the files discovered whose text was read
ReadFiles ==
    LET read == SelectSeq(proto_paths, LAMBDA path : Disk[path] # None) IN
    [i \in DOMAIN read |-> [path |-> read[i], content |-> Disk[read[i]][1]]]

\* the files discovered whose text has a service definition
ServiceFiles ==
    {ReadFiles[i].path :
        i \in {k \in DOMAIN ReadFiles :
                has_service_definition(ReadFiles[k].content)}}

\* compile_proto_bundle was called: files were discovered and read
CompileCalled ==
    /\ FilesReturned
    /\ ReadFiles # <<>>
    /\ files_cmd = "compile_proto_from_paths" =>
          Len(ReadFiles) = Len(proto_paths)

\* the error compile_proto_bundle failed with, None if it did not fail
CompileError ==
    IF files_cmd = "compile_proto_from_paths"
    THEN IF files_ret.kind = "Err" THEN Some(files_ret.text) ELSE None
    ELSE LET of_protoc ==
                SelectSeq(files_ret.errors,
                          LAMBDA e : e.file = <<"protoc">>)
         IN IF of_protoc = <<>> THEN None ELSE Some(of_protoc[1].message)

\* C28: the input files of the command line of protoc are exactly the
\* discovered files whose text has a service definition; when no
\* discovered file has one, the compilation fails with the no-services
\* error and protoc is not run.
C28_CompilationSetIsServiceFiles ==
    /\ (FilesReturned /\ protoc_command # None) =>
          {protoc_input(protoc_command[1].proto_path,
                        protoc_command[1].files[i]) :
              i \in DOMAIN protoc_command[1].files}
            = {Some(path) : path \in ServiceFiles}
    /\ (CompileCalled /\ ServiceFiles = {}) =>
          /\ protoc_command = None
          /\ CompileError
                = Some("No proto files with service definitions found")

\* the services the surface parser finds in the files read
SurfaceServices == extract_services_of(ReadFiles).services

\* C29: when the compilation fails and the surface parser found a
\* service, parse_proto_files returns success with the services of the
\* surface parser, no method with a sample_request, and with the error of
\* the compilation in errors; success is false only when errors is not
\* empty and services is.
C29_SurfaceFallback ==
    (FilesReturned /\ files_cmd = "parse_proto_files") =>
        /\ (CompileCalled /\ CompileError # None /\ SurfaceServices # <<>>)
            => /\ files_ret.success
               /\ Len(files_ret.services) = Len(SurfaceServices)
               /\ \A i \in DOMAIN SurfaceServices :
                    \E k \in DOMAIN files_ret.services :
                        LET found == SurfaceServices[i]
                            returned == files_ret.services[k]
                        IN /\ returned.name = found.name
                           /\ returned.package_name = found.package_name
                           /\ returned.source_proto = found.source_proto
                           /\ {returned.methods[n] :
                                    n \in DOMAIN returned.methods}
                                = {found.methods[n] :
                                    n \in DOMAIN found.methods}
               /\ \A k \in DOMAIN files_ret.services :
                    \A n \in DOMAIN files_ret.services[k].methods :
                        files_ret.services[k].methods[n].sample_request
                            = None
               /\ \E k \in DOMAIN files_ret.errors :
                    /\ files_ret.errors[k].file = <<"protoc">>
                    /\ files_ret.errors[k].message = CompileError[1]
        /\ ~files_ret.success =>
              files_ret.errors # <<>> /\ files_ret.services = <<>>

\* protoc was run and failed, and the services of two files are returned
C29_Witness ==
    /\ FilesReturned
    /\ files_cmd = "parse_proto_files"
    /\ protoc_command # None
    /\ CompileError \in {Some("protoc failed"), Some("Failed to run protoc")}
    /\ Len(files_ret.services) = 3
    /\ files_ret.success

\* ------------------------------------------------------------------------
\* The streaming decoders: the chunks of the body
\* ------------------------------------------------------------------------

\* the bytes of the body the loop has been given so far
DeliveredBytes == SubSeq(Concat(frames_sent), 1, Delivered)

\* the loop given `bytes` as the one chunk of a body, from its start
SingleChunk(bytes) ==
    IF is_bidirectional
    THEN BidiStreamFrames(extend_from_slice(<<>>, bytes), 0, <<>>)
    ELSE ServerStreamFrames(extend_from_slice(<<>>, bytes), 0, <<>>, <<>>)

\* the bytes delivered that follow the last frame delivered whole
IncompleteFrame ==
    SubSeq(DeliveredBytes, Len(Concat(FramesReceived)) + 1, Delivered)

\* C31: the streaming decoder is independent of the chunk boundaries:
\* however the bytes of the body delivered so far were cut into chunks, the
\* events emitted, the index, the messages collected and the bytes left in
\* the buffer are those of the same bytes arriving as a single chunk, and a
\* decode failure of the single chunk is a failure here; the bytes of an
\* incomplete frame stay in the buffer and no event is emitted for it.
C31_ChunkingIndependent ==
    d_pc # "off" =>
        LET one == SingleChunk(DeliveredBytes) IN
        /\ events = one.events
        /\ message_index = one.message_index
        /\ response_messages = one.response_messages
        /\ buffer = one.buffer
        /\ one.err => d_pc = "failed"
        /\ d_pc = "read" =>
              /\ buffer = IncompleteFrame
              /\ Len(events) <= Len(FramesReceived)

\* two frames have been cut off and emitted, and the third is incomplete:
\* its header is in the buffer, its payload has not arrived
C31_Witness ==
    /\ d_pc = "read"
    /\ Len(frames_sent) = 3
    /\ Len(frames_sent[3]) = 1
    /\ Len(events) = 2
    /\ Len(buffer) = 5
    /\ body_stream # <<>>

\* ------------------------------------------------------------------------
\* The stream registry: the end of the request body
\* ------------------------------------------------------------------------

\* the task of s has failed
StreamTaskFailed(s) == result[s] \in {"err_build", "err_call", "err_response"}

\* recv() has returned None and sender_task has dropped body_sender: the
\* request body has ended
BodyClosed(s) == sender_task[s] = "closed"

\* finish_streaming has removed the entry of s
TakenByFinish(s) == stream[s] \in {"finish", "returned"}

\* C32: the request body of a stream whose entry was not overwritten and
\* whose task has not failed is closed only after finish_streaming has
\* removed the entry, and a closed body holds every frame for which a send
\* returned success, whatever the interleaving of the sends, the finish and
\* the forwarder.
C32_BodyClosedAfterFinish ==
    \A s \in Streams :
        (BodyClosed(s) /\ stream[s] # "dropped" /\ ~StreamTaskFailed(s)) =>
            /\ TakenByFinish(s)
            /\ TabsOf(s) = {}
            /\ body[s] = pushed[s]
            /\ message_rx[s] = <<>>

\* the body of a stream is closed with a frame in it after a finish, and
\* the task has ended without a failure
C32_Witness ==
    \E s \in Streams :
        /\ BodyClosed(s)
        /\ stream[s] = "returned"
        /\ result[s] = "ok"
        /\ Len(body[s]) = 1
        /\ body[s] = pushed[s]

\* ------------------------------------------------------------------------
\* The stream registry: the one-shot channel of the result
\* ------------------------------------------------------------------------

\* the result of the task of s is in the one-shot channel or was received
ResultWritten(s) == result[s] # "none"

\* caller c's finish_streaming holds the receiver of a stream whose task
\* has ended
AwaitsEndedTask(c) == pc[c] = "finish_await" /\ task[cstream[c]] = "done"

C33_ResultState ==
    /\ \A s \in Streams : ResultWritten(s) <=> task[s] = "done"
    /\ \A c \in Callers :
        AwaitsEndedTask(c) =>
            /\ ResponseReady(cstream[c])
            /\ ENABLED finish_streaming_Await(c)
    /\ (ret.op = "finish" /\ ret.stream # 0) =>
            /\ ret.val = result[ret.stream]
            /\ ret.val \in {"ok", "err_build", "err_call", "err_response"}

C33_ResultStep ==
    \A s \in Streams :
        /\ ResultWritten(s) => result'[s] = result[s]
        /\ task[s] = "done" => task'[s] = "done"
        /\ result'[s] # result[s] => task[s] # "done" /\ task'[s] = "done"

\* C33: the task of a stream writes its result into the one-shot channel
\* once, in its last step, and the channel keeps it: the result never
\* changes, a finish_streaming that holds the receiver of a task that has
\* ended (before or after the finish was called) can return at once, and
\* what a finish_streaming returns for a stream is the result of its task,
\* never the error of a lost result.
C33_ResultRetained == []C33_ResultState /\ [][C33_ResultStep]_vars

\* a finish_streaming is about to take the entry of a stream whose task
\* has already ended with a result
C33_Witness ==
    \E c \in Callers :
        /\ pc[c] = "finish_cs"
        /\ ACTIVE_CLIENT_STREAMS[ctab[c]] # 0
        /\ task[ACTIVE_CLIENT_STREAMS[ctab[c]]] = "done"
        /\ result[ACTIVE_CLIENT_STREAMS[ctab[c]]] = "ok"

\* ------------------------------------------------------------------------
\* The stream registry: finish_streaming returns
\* ------------------------------------------------------------------------

\* The scheduling of the tasks: the runtime polls a task that can take a
\* step, and the transport writes a frame or reports a failure.  Of the
\* server only this is assumed: once the forwarder has ended (the request
\* body is closed, or it could not be written), the response arrives or the
\* call fails.
TaskFairness(s) ==
    /\ WF_vars(\E built \in BOOLEAN : task_Build(s, built))
    /\ WF_vars(sender_task[s] # "run"
                /\ \E arrived, bidi \in BOOLEAN : task_Response(s, arrived, bidi))
    /\ WF_vars(\E decoded \in BOOLEAN : task_Join(s, decoded))
    /\ WF_vars(\E written \in BOOLEAN : sender_task_Forward(s, written))
    /\ WF_vars(sender_task_Close(s))

\* FairSpec with the tasks scheduled fairly and the one-shot receiver woken
TaskFairSpec ==
    /\ FairSpec
    /\ \A s \in Streams : TaskFairness(s)
    /\ \A c \in Callers : WF_vars(finish_streaming_Await(c))

FinishPcs == {"finish_lock", "finish_cs", "finish_await"}

\* a finish_streaming that has returned the result of a stream has returned
\* it after the task of the stream had sent it
C34_NotBeforeResult ==
    /\ (ret.op = "finish" /\ ret.stream # 0) =>
            /\ task[ret.stream] = "done"
            /\ ret.val = result[ret.stream]
    /\ \A c \in Callers :
        ENABLED finish_streaming_Await(c) => task[cstream[c]] = "done"

\* C34: with the tasks scheduled fairly and a server that answers once the
\* request body has ended, every finish_streaming returns: from the call to
\* the removal of the entry, to the wait for the task, to the return; and it
\* does not return the result of a stream before the task has produced it.
C34_FinishReturns ==
    /\ []C34_NotBeforeResult
    /\ \A c \in Callers : (pc[c] \in FinishPcs) ~> (pc[c] = "idle")
    /\ \A c \in Callers :
        (pc[c] = "finish_await") ~>
            (ret.op = "finish" /\ ret.stream # 0 /\ pc[c] = "idle")

\* a finish_streaming waits for a task that waits for the response, while
\* the forwarder still has a frame to write
C34_Witness ==
    \E c \in Callers :
        /\ pc[c] = "finish_await"
        /\ task[cstream[c]] = "await_resp"
        /\ sender_task[cstream[c]] = "run"
        /\ message_rx[cstream[c]] # <<>>

\* ------------------------------------------------------------------------
\* The stream registry: two finish_streaming calls on one tab
\* ------------------------------------------------------------------------

C35_OneFinishState ==
    /\ \A c, d \in Callers :
        (c # d /\ pc[c] = "finish_await") =>
            \* the receiver c holds is held by c alone
            /\ pc[d] = "finish_await" => cstream[d] # cstream[c]
            \* a finish of the same tab still under way finds no entry, or
            \* the entry of a stream a start_client_stream has inserted since
            /\ (pc[d] \in {"finish_lock", "finish_cs"} /\ ctab[d] = ctab[c]) =>
                    /\ ACTIVE_CLIENT_STREAMS[ctab[d]] # cstream[c]
                    /\ nextStream = 2 => ACTIVE_CLIENT_STREAMS[ctab[d]] = 0
    /\ \A c \in Callers : pc[c] = "finish_cs" => lock = c

C35_OneFinishStep ==
    /\ \A c \in Callers :
        /\ FinishTakes(c) =>
            /\ stream[ACTIVE_CLIENT_STREAMS[ctab[c]]] = "entry"
            /\ stream'[ACTIVE_CLIENT_STREAMS[ctab[c]]] = "finish"
            /\ \A d \in Callers \ {c} : ~FinishTakes(d)
        /\ (pc[c] = "finish_cs" /\ ACTIVE_CLIENT_STREAMS[ctab[c]] = 0) =>
            \/ pc'[c] = "finish_cs"
            \/ /\ pc'[c] = "idle"
               /\ ret'.op = "finish"
               /\ ret'.val = StreamNotFound
               /\ ACTIVE_CLIENT_STREAMS' = ACTIVE_CLIENT_STREAMS
        /\ (pc[c] = "finish_await" /\ pc'[c] = "idle") =>
            ret'.val = result[cstream[c]]
    /\ \A s \in Streams :
        stream[s] \in {"finish", "returned"} =>
            stream'[s] \in {"finish", "returned"}

\* C35: of two finish_streaming calls that run at the same time on a tab
\* with an open stream, one removes the entry and returns the result of the
\* stream's task, and the other finds no entry and fails with 'Stream not
\* found': the entry of a stream is removed once, by a call that holds the
\* mutex, and its one-shot receiver is awaited by one caller at most.
C35_OneFinishTakesEntry == []C35_OneFinishState /\ [][C35_OneFinishStep]_vars

\* one finish_streaming waits for the task of the only stream opened while
\* the other, called for the same tab, has failed with 'Stream not found'
C35_Witness ==
    \E c \in Callers :
        /\ pc[c] = "finish_await"
        /\ nextStream = 2
        /\ result[cstream[c]] = "none"
        /\ ret.op = "finish"
        /\ ret.val = StreamNotFound
        /\ ret.tab = ctab[c]

\* ------------------------------------------------------------------------
\* The stream registry: what send_stream_message changes
\* ------------------------------------------------------------------------

\* the tabs that have an entry
RegistryKeys(reg) == {t \in Tabs : reg[t] # 0}

\* the step is taken by the send_stream_message of caller c
SendSteps(c) == pc[c] \in SendPcs /\ pc'[c] # pc[c]

\* the step is the return of the send_stream_message of caller c
SendReturns(c) == SendSteps(c) /\ pc'[c] = "idle"

SendErrors == {"Stream not found", "Failed to parse", "Failed to send"}

\* C36: a send_stream_message that fails, for a tab without an entry, for a
\* body that is no valid JSON of the input message, or for a closed queue,
\* pushes nothing into any queue and leaves the registry as it is; one that
\* succeeds appends exactly one frame, its own, to the queue of the stream
\* it looked up, and leaves the registry as it is too, so the tabs that
\* have an entry are the same.
C36_SendFrame ==
    [][\A c \in Callers :
        /\ SendSteps(c) =>
            /\ ACTIVE_CLIENT_STREAMS' = ACTIVE_CLIENT_STREAMS
            /\ RegistryKeys(ACTIVE_CLIENT_STREAMS')
                = RegistryKeys(ACTIVE_CLIENT_STREAMS)
            /\ stream' = stream
            /\ body' = body
        /\ (SendSteps(c) /\ ~SendReturns(c)) => message_rx' = message_rx
        /\ SendReturns(c) =>
            /\ ret'.op = "send"
            /\ ret'.val \in SendErrors \cup {"sent"}
            /\ ret'.val \in SendErrors =>
                    /\ message_rx' = message_rx
                    /\ pushed' = pushed
            /\ ret'.val = "sent" =>
                    /\ cstream[c] # 0
                    /\ message_rx' =
                        [message_rx EXCEPT
                            ![cstream[c]] = Append(@, cmsg[c])]
            /\ (pc[c] = "send_cs") =>
                    /\ ACTIVE_CLIENT_STREAMS[ctab[c]] = 0
                    /\ ret'.val = "Stream not found"
      ]_vars

\* a send with a body that does not parse has returned its error, and the
\* frame of an earlier send is still in the queue of the tab's stream
C36_Witness ==
    /\ ret.op = "send"
    /\ ret.val = "Failed to parse"
    /\ ret.stream # 0
    /\ ACTIVE_CLIENT_STREAMS[ret.tab] = ret.stream
    /\ Len(message_rx[ret.stream]) = 1

\* ------------------------------------------------------------------------
\* The server-streaming call: a failure after k frames
\* ------------------------------------------------------------------------

\* the frames of the response that have arrived whole
WholeFrames ==
    CHOOSE n \in 0 .. Len(server.sent) :
        /\ \A k \in 1 .. n : FrameDelivered(k)
        /\ \A k \in n + 1 .. Len(server.sent) : ~FrameDelivered(k)

\* the first frame of the response that does not decode, counted from 1;
\* 0: every frame decodes
FirstUndecodable ==
    LET bad == {k \in 1 .. Len(server.sent) :
                    ~DecodeOk(server.sent[k].message_bytes)}
    IN IF bad = {} THEN 0
       ELSE CHOOSE k \in bad : \A j \in bad : k <= j

DecodeFailure == ErrString("Failed to decode response protobuf frame")

ReadFailure == ErrString("Failed to read response stream")

C37_FailureState ==
    (is_server_streaming /\ call_pc \in {"next", "returned"}) =>
        /\ \A i \in 1 .. Len(events) :
              /\ events[i].index = i - 1
              /\ events[i].data = server.sent[i].message_bytes
        \* the frame that does not decode ends the call with the events of
        \* the frames before it
        /\ (FirstUndecodable # 0 /\ FrameDelivered(FirstUndecodable)) =>
              /\ Returned
              /\ call_ret = DecodeFailure
              /\ Len(events) = FirstUndecodable - 1
        /\ (Returned /\ call_ret = DecodeFailure) =>
              /\ FirstUndecodable # 0
              /\ FrameDelivered(FirstUndecodable)
        \* a read error ends the call with the events of the frames read
        /\ (Returned /\ call_ret = ReadFailure) =>
              /\ Len(events) = WholeFrames
              /\ FirstUndecodable = 0 \/ FirstUndecodable > WholeFrames

C37_FailureStep ==
    /\ Returned => (events' = events /\ call_ret' = call_ret)
    \* the loop is left by an error, which is returned as it is, or by the
    \* end of the body, which alone leads to the summary envelope
    /\ (call_pc = "next" /\ call_pc' = "returned") =>
          /\ response_data' = None <=>
                call_ret' \in {DecodeFailure, ReadFailure}
          /\ response_data' # None <=> call_ret'.kind = "Ok"
          /\ call_ret' = DecodeFailure \/ events' = events

\* C37: a server-streaming call whose k-th frame (from 0) does not decode,
\* or whose body reports a read error after k frames, returns an error and
\* no summary envelope; the events emitted are those of the frames before,
\* with the indices 0 .. k-1, and none is emitted after the return.
C37_ErrorAfterFrames == []C37_FailureState /\ [][C37_FailureStep]_vars

\* the second frame of a response did not decode: the call has returned
\* the error after the event of the first
C37_Witness ==
    /\ Returned
    /\ is_server_streaming
    /\ call_ret = DecodeFailure
    /\ FirstUndecodable = 2
    /\ Len(events) = 1
    /\ events[1].index = 0

\* ------------------------------------------------------------------------
\* The connector of a request: call_grpc_method and start_client_stream
\* ------------------------------------------------------------------------

\* The files a TlsConfig names.  "ca.pem" and "client.pem" hold one
\* certificate each, "client.key" one PKCS#8 key; "garbage.pem" holds a
\* PEM section that is no certificate; the "missing" files do not exist.
CaPaths == {"ca.pem", "garbage.pem", "missing.pem"}
ClientCertPaths == {"client.pem", "missing.pem"}
ClientKeyPaths == {"client.key", "missing.key"}

TlsConfig(enabled, client_cert_path, client_key_path, server_ca_cert_path, insecure_skip_verify) ==
    [enabled |-> enabled,
     client_cert_path |-> client_cert_path,
     client_key_path |-> client_key_path,
     server_ca_cert_path |-> server_ca_cert_path,
     insecure_skip_verify |-> insecure_skip_verify]

TlsConfigs ==
    {TlsConfig(enabled, cert, key, ca, skip) :
        enabled \in BOOLEAN,
        cert \in OptionOf(ClientCertPaths),
        key \in OptionOf(ClientKeyPaths),
        ca \in OptionOf(CaPaths),
        skip \in OptionOf(BOOLEAN)}

\* Ok(value) of a Result
OkOf(value) == [kind |-> "Ok", value |-> value]

\* Option::unwrap_or
unwrap_or(option, default) == IF option = None THEN default ELSE option[1]

\* load_certificates_from_file: the certificates of the PEM sections of the
\* file, whatever their content
load_certificates_from_file(path) ==
    IF path \in {"ca.pem", "client.pem", "garbage.pem"}
    THEN OkOf({path})
    ELSE ErrString("Failed to open certificate file")

\* load_private_key_from_file
load_private_key_from_file(path) ==
    IF path = "client.key"
    THEN OkOf(path)
    ELSE ErrString("Failed to open private key file")

\* root_store.add(&cert) takes a certificate that parses as X.509
is_x509(cert) == cert # "garbage.pem"

\* webpki_roots::TLS_SERVER_ROOTS, the trust anchors compiled into the
\* binary
TLS_SERVER_ROOTS == {"webpki-roots"}

\* the certificates of the trust store of the platform
native_certs == {"native certs"}

\* the policy of a connector: the trust anchors, the client certificate
\* and key (None: no client authentication), and the verifier of the
\* server certificate
Connector(roots, client_auth, verifier) ==
    [roots |-> roots, client_auth |-> client_auth, verifier |-> verifier]

\* HttpsConnectorBuilder::new().with_native_roots(): the defaults of rustls
\* with the trust store of the platform
with_native_roots == Connector(native_certs, None, "WebPkiVerifier")

\* tls_config.as_ref().map(|c| c.enabled).unwrap_or(false)
use_tls(config) == config # None /\ config[1].enabled

\* the root store of call_grpc_method: the certificates of server_ca, or
\* the embedded roots
root_store_of(tls_cfg) ==
    IF tls_cfg.server_ca_cert_path # None
    THEN LET ca_certs ==
                load_certificates_from_file(tls_cfg.server_ca_cert_path[1])
         IN IF ca_certs.kind = "Err" THEN ca_certs
            ELSE IF \E cert \in ca_certs.value : ~is_x509(cert)
            THEN ErrString("Failed to add CA certificate")
            ELSE ca_certs
    ELSE OkOf(TLS_SERVER_ROOTS)

\* with_client_auth_cert if the certificate and the key are both given,
\* with_no_client_auth otherwise
client_auth_of(tls_cfg) ==
    IF tls_cfg.client_cert_path # None /\ tls_cfg.client_key_path # None
    THEN LET client_certs ==
                load_certificates_from_file(tls_cfg.client_cert_path[1])
             client_key ==
                load_private_key_from_file(tls_cfg.client_key_path[1])
         IN IF client_certs.kind = "Err" THEN client_certs
            ELSE IF client_key.kind = "Err" THEN client_key
            ELSE OkOf(Some(<<client_certs.value, client_key.value>>))
    ELSE OkOf(None)

\* set_certificate_verifier(NoCertificateVerification) if
\* insecure_skip_verify is Some(true)
verifier_of(tls_cfg) ==
    IF unwrap_or(tls_cfg.insecure_skip_verify, FALSE)
    THEN "NoCertificateVerification"
    ELSE "WebPkiVerifier"

\* the connector call_grpc_method builds for a TlsConfig, or the Err it
\* returns (lines 440-502)
call_https_connector(config) ==
    IF use_tls(config)
    THEN LET tls_cfg == config[1]
             roots == root_store_of(tls_cfg)
             client_auth == client_auth_of(tls_cfg)
         IN IF roots.kind = "Err" THEN roots
            ELSE IF client_auth.kind = "Err" THEN client_auth
            ELSE OkOf(Connector(roots.value, client_auth.value,
                                verifier_of(tls_cfg)))
    ELSE OkOf(with_native_roots)

\* the connector start_client_stream builds (lines 935-939): tls_config is
\* read for the scheme of the URI only
stream_https_connector(config) == OkOf(with_native_roots)

\* call_grpc_method with TLS: the root store is filled
call_root_store ==
    /\ tls_pc = "called"
    /\ tls_cmd = "call_grpc_method"
    /\ use_tls(tls_config)
    /\ LET roots == root_store_of(tls_config[1]) IN
        IF roots.kind = "Err"
        THEN /\ tls_pc' = "failed"
             /\ tls_ret' = roots
             /\ UNCHANGED root_store
        ELSE /\ tls_pc' = "client_auth"
             /\ root_store' = roots.value
             /\ UNCHANGED tls_ret
    /\ UNCHANGED <<tls_cmd, tls_config, client_config, https_connector>>
    /\ UNCHANGED tlsFrame

\* call_grpc_method with TLS: the client certificate is set or left out
call_client_auth ==
    /\ tls_pc = "client_auth"
    /\ LET client_auth == client_auth_of(tls_config[1]) IN
        IF client_auth.kind = "Err"
        THEN /\ tls_pc' = "failed"
             /\ tls_ret' = client_auth
             /\ UNCHANGED client_config
        ELSE /\ tls_pc' = "verifier"
             /\ client_config' =
                    Connector(root_store, client_auth.value,
                              "WebPkiVerifier")
             /\ UNCHANGED tls_ret
    /\ UNCHANGED <<tls_cmd, tls_config, root_store, https_connector>>
    /\ UNCHANGED tlsFrame

\* call_grpc_method with TLS: the verifier is replaced or kept, and the
\* connector is built with the final configuration
call_final_config ==
    /\ tls_pc = "verifier"
    /\ tls_pc' = "built"
    /\ https_connector' =
        Some([client_config EXCEPT !.verifier = verifier_of(tls_config[1])])
    /\ UNCHANGED <<tls_cmd, tls_config, root_store, client_config, tls_ret>>
    /\ UNCHANGED tlsFrame

\* call_grpc_method without TLS
call_native_roots ==
    /\ tls_pc = "called"
    /\ tls_cmd = "call_grpc_method"
    /\ ~use_tls(tls_config)
    /\ tls_pc' = "built"
    /\ https_connector' = Some(with_native_roots)
    /\ UNCHANGED <<tls_cmd, tls_config, root_store, client_config, tls_ret>>
    /\ UNCHANGED tlsFrame

\* the task of start_client_stream builds its connector
stream_native_roots ==
    /\ tls_pc = "called"
    /\ tls_cmd = "start_client_stream"
    /\ tls_pc' = "built"
    /\ https_connector' = Some(stream_https_connector(tls_config).value)
    /\ UNCHANGED <<tls_cmd, tls_config, root_store, client_config, tls_ret>>
    /\ UNCHANGED tlsFrame

\* a command is called with a TlsConfig or without one
TlsInit ==
    /\ RuntimeIdle
    /\ HeaderIdle
    /\ PathIdle
    /\ SampleIdle
    /\ SurfaceIdle
    /\ FilesIdle
    /\ tls_pc = "called"
    /\ tls_cmd \in {"call_grpc_method", "start_client_stream"}
    /\ tls_config \in OptionOf(TlsConfigs)
    /\ root_store = {}
    /\ client_config = NotReturned
    /\ https_connector = None
    /\ tls_ret = NotReturned

TlsNext ==
    \/ call_root_store
    \/ call_client_auth
    \/ call_final_config
    \/ call_native_roots
    \/ stream_native_roots

TlsSpec == TlsInit /\ [][TlsNext]_vars

\* ------------------------------------------------------------------------
\* Properties of the connector
\* ------------------------------------------------------------------------

\* C38: the connector of start_client_stream has the policy the connector
\* of call_grpc_method has for the same TlsConfig: the same trust anchors
\* (the embedded roots without server_ca, the loaded certificates alone
\* with it), the same client certificate and key, the same verifier (the
\* one that accepts every certificate if insecure_skip_verify is true);
\* and where call_grpc_method returns an error for the TlsConfig, so does
\* start_client_stream.
C38_StreamConnectorAsUnary ==
    (tls_cmd = "start_client_stream" /\ tls_pc \in {"built", "failed"}) =>
        LET unary == call_https_connector(tls_config) IN
        IF unary.kind = "Ok"
        THEN tls_pc = "built" /\ https_connector = Some(unary.value)
        ELSE tls_pc = "failed" /\ tls_ret = unary

==========================================================================
